---- MODULE Spec2Model ----
(***************************************************************************)
(* Client-side protocol engine of the starmap API: the escrow chain walks  *)
(* (getEscrowAccounts, getNextAvailableEscrowAccount), the construction    *)
(* validation of createEscrowAccount / deleteEscrowAccount and the decoded *)
(* flags of a Name Record (StarState).  The ledger is the remote account   *)
(* store the walks read through connection.getAccountInfo; every await of  *)
(* a read is one step, so other writers can act between two reads.         *)
(***************************************************************************)
EXTENDS Integers, Sequences, FiniteSets, TLC

\* ---------------------------------------------------------------- bounds
\* Largest escrow index that has an account address in the modelled ledger.
MaxIndex == 3
\* Number of out-of-protocol changes (corruptions) applied to the ledger.
MaxCorrupt == 1
\* Number of node reads after which a walk is no longer followed.
MaxFetch == 5
\* Largest versionMajor byte of a stored Name Record that is enumerated.
MaxVersion == 1
MaxApplied == 4

\* ------------------------------------------------------ program constants
\* The terminal sentinel 0xffffffff, in an index space scaled down to
\* 0..MaxIndex + 1: it is the largest value an index field can hold, and every
\* smaller index but it has an account address in the ledger.
U32_MAX == MaxIndex + 1
U16_MAX == 65535
AccountType_Escrow == 2
AccountType_Record == 1
StarState_MIN_VERSION == 1
RecordType_Invalid == 0
RecordType_Phone == 1
RecordType_Email == 2
RecordType_Stars == 3
RecordType_Civic == 4
RecordType_Bonfida == 1000

\* The values of the RecordType enum.
RecordTypes ==
  {RecordType_Invalid, RecordType_Phone, RecordType_Email, RecordType_Stars,
   RecordType_Civic, RecordType_Bonfida}

ConfigType_Invalid == 0
ConfigType_General == 1

NullPointerError == "Null pointer in escrow chain"
InvalidIndexError == "Invalid index; prev < index < next"
NameLengthError == "Maximum name length is 255 chars."
DecodeError == "BorshError"

Callers == {"c1", "c2"}
Senders == {"s1", "s2"}

\* The caller whose operations are followed on a ledger that stands still.
Walker == "c1"

\* The key of the caller that pays for (and is recorded as sender of) a node.
SenderOf(c) == IF c = "c1" THEN "s1" ELSE "s2"

\* next_index / prev_index / index values a stored account can carry.
LinkValues == 0..U32_MAX

\* ---------------------------------------------------------------- ledger
\* What connection.getAccountInfo yields for an address.
Absent == [kind |-> "absent"]

Null == [kind |-> "null"]
Thrown(e) == [kind |-> "throw", error |-> e]
None == [kind |-> "none"]

\* Address of the escrow account (root for index 0) of the one identifier.
getEscrowAccountKey(index) == [accountType |-> AccountType_Escrow, index |-> index]

\* Address of the identifier's Name Record.
getNameAccountKey == [accountType |-> AccountType_Record]

\* The account stored at an address; addresses beyond the modelled ledger hold nothing.
getAccountInfo(l, key) ==
  IF key.index \in DOMAIN l THEN l[key.index] ELSE Absent

\* A root account is shorter than the node layout: decoding it as a node throws.
EscrowState_retrieve(l, key) ==
  LET accountInfo == getAccountInfo(l, key) IN
  IF accountInfo.kind \in {"absent", "foreign"} THEN Null
  ELSE IF accountInfo.kind = "root" THEN Thrown(DecodeError)
  ELSE [kind |-> "escrow",
        index |-> accountInfo.index,
        prev_index |-> accountInfo.prev_index,
        next_index |-> accountInfo.next_index,
        sender |-> accountInfo.sender,
        address |-> key]

EscrowState_empty(index, prevIndex, nextIndex, address) ==
  [kind |-> "escrow",
   index |-> index,
   prev_index |-> prevIndex,
   next_index |-> nextIndex,
   sender |-> "default",
   address |-> address]

getEscrowRootAccount(l) == (LET accountInfo == getAccountInfo(l, (getEscrowAccountKey(0))) IN
                            IF accountInfo.kind \in {"absent", "foreign"} THEN Null
                            ELSE [kind |-> "rootstate", next_index |-> accountInfo.next_index])

getEscrowAccount(l, index) == EscrowState_retrieve(l, getEscrowAccountKey(index))

VARIABLES
  ledger,        \* escrow accounts of the identifier, by index (0 is the root)
  corruptions,   \* number of out-of-protocol ledger changes so far
  applied,       \* triples of the createEscrow instructions the program applied
  pc,            \* per caller: position in the running operation
  op,            \* per caller: the running operation
  filter,        \* per caller: senderFilter of getEscrowAccounts
  index,         \* per caller: the walk's index variable
  accounts,      \* per caller: accounts accumulated by getEscrowAccounts
  fetched,       \* per caller: indices of the node reads issued by the walk
  arg,           \* per caller: EscrowState handed to create/deleteEscrowAccount
  calls,         \* per caller: hash and derivations done by the builder
  result,        \* per caller: value returned (list, slot or instruction)
  err,           \* per caller: message of the raised error
  inserted,      \* per caller: an insert was applied since the walk began
  deleted,       \* per caller: a delete was applied since the walk began
  star           \* last value returned by StarState.retrieve

ledgerVars == <<ledger, corruptions, applied>>
callerVars == <<pc, op, filter, index, accounts, fetched, arg, calls, result, err>>
raceVars == <<inserted, deleted>>
vars == <<ledger, corruptions, applied, pc, op, filter, index, accounts, fetched,
          arg, calls, result, err, inserted, deleted, star>>

\* ------------------------------------------------------------------ Init
NoFilter == [kind |-> "nofilter"]
NoArg == [kind |-> "noarg"]

\* No escrow account exists and no caller runs an operation.
InitEscrow ==
  /\ ledger = [i \in 0..MaxIndex |-> Absent]
  /\ corruptions = 0
  /\ applied = <<>>
  /\ pc = [c \in Callers |-> "idle"]
  /\ op = [c \in Callers |-> "none"]
  /\ filter = [c \in Callers |-> NoFilter]
  /\ index = [c \in Callers |-> 0]
  /\ accounts = [c \in Callers |-> <<>>]
  /\ fetched = [c \in Callers |-> <<>>]
  /\ arg = [c \in Callers |-> NoArg]
  /\ calls = [c \in Callers |-> <<>>]
  /\ result = [c \in Callers |-> None]
  /\ err = [c \in Callers |-> ""]
  /\ inserted = [c \in Callers |-> FALSE]
  /\ deleted = [c \in Callers |-> FALSE]

Init ==
  /\ InitEscrow
  /\ star = [kind |-> "nostar"]

Quiet == \A c \in Callers : pc[c] = "idle"

\* ------------------------------------------------- the ledger program
\* As ProgramAcceptsInsert, but the triple is not checked against the ledger.
ProgramAcceptsInsert_unchecked(l, prev, curr, next) ==
  /\ curr \in 1..MaxIndex
  /\ prev \in 0..MaxIndex

\* The remote program's atomic validation of a createEscrow triple: the node
\* named prev (the root for 0, an absent root counting as empty) links to
\* next, and no account exists at curr.
ProgramAcceptsInsert(l, prev, curr, next) ==
  /\ curr \in 1..MaxIndex
  /\ prev \in 0..MaxIndex
  /\ l[curr].kind = "absent"
  /\ IF prev = 0
       THEN \/ l[0].kind = "root" /\ l[0].next_index = next
            \/ l[0].kind = "absent" /\ next = U32_MAX
       ELSE l[prev].kind = "node" /\ l[prev].next_index = next

\* The ledger after the program links curr between prev and next.
ProgramInsert(l, prev, curr, next, s) ==
  [i \in 0..MaxIndex |->
     IF i = curr
       THEN [kind |-> "node", index |-> curr, prev_index |-> prev, next_index |-> next,
             sender |-> s]
     ELSE IF i = prev /\ i = 0 THEN [kind |-> "root", next_index |-> curr]
     ELSE IF i = prev THEN [l[i] EXCEPT !.next_index = curr]
     ELSE IF i = next /\ l[i].kind = "node" THEN [l[i] EXCEPT !.prev_index = curr]
     ELSE l[i]]

\* The program's validation of a deleteEscrow triple against the stored links.
ProgramAcceptsDelete(l, prev, curr, next) ==
  /\ curr \in 1..MaxIndex
  /\ prev \in 0..MaxIndex
  /\ l[curr].kind = "node"
  /\ l[curr].prev_index = prev
  /\ l[curr].next_index = next
  /\ l[prev].kind \in {"root", "node"}
  /\ l[prev].next_index = curr
  /\ next # U32_MAX => (next \in 1..MaxIndex /\ l[next].kind = "node")

\* The ledger after the program unlinks curr: prev.next_index = curr.next_index
\* and next.prev_index = curr.prev_index.
ProgramDelete(l, prev, curr, next) ==
  [i \in 0..MaxIndex |->
     IF i = curr THEN Absent
     ELSE IF i = prev THEN [l[i] EXCEPT !.next_index = next]
     ELSE IF i = next /\ l[i].kind = "node" THEN [l[i] EXCEPT !.prev_index = prev]
     ELSE l[i]]

\* Another writer's valid insert, applied between two reads of a walk.
WriterInsert(S) ==
  /\ \E prev \in 0..MaxIndex, curr \in 1..MaxIndex, next \in LinkValues, s \in S :
       /\ (~ (curr < 1 \/ prev > curr \/ next < curr))
       /\ ProgramAcceptsInsert(ledger, prev, curr, next)
       /\ ledger' = ProgramInsert(ledger, prev, curr, next, s)
  /\ inserted' = [c \in Callers |-> inserted[c] \/ pc[c] # "idle"]
  /\ UNCHANGED <<corruptions, applied, callerVars, deleted, star>>

\* Another writer's valid delete of an existing node.
WriterDelete ==
  /\ \E prev \in 0..MaxIndex, curr \in 1..MaxIndex, next \in LinkValues :
       /\ (~ (curr < 1 \/ prev > curr \/ next < curr))
       /\ ProgramAcceptsDelete(ledger, prev, curr, next)
       /\ ledger' = ProgramDelete(ledger, prev, curr, next)
  /\ deleted' = [c \in Callers |-> deleted[c] \/ pc[c] # "idle"]
  /\ UNCHANGED <<corruptions, applied, callerVars, inserted, star>>

\* ------------------------------------------- inconsistent ledger states
\* An account disappears without its neighbours being relinked.
CorruptRemove ==
  /\ corruptions < MaxCorrupt
  /\ \E k \in 0..MaxIndex :
       /\ ledger[k].kind \in {"root", "node"}
       /\ ledger' = [ledger EXCEPT ![k] = Absent]
  /\ corruptions' = corruptions + 1
  /\ UNCHANGED <<applied, callerVars, raceVars, star>>

\* The address holds an account that the program does not own.
CorruptOwner ==
  /\ corruptions < MaxCorrupt
  /\ \E k \in 0..MaxIndex :
       /\ ledger[k].kind \in {"root", "node"}
       /\ ledger' = [ledger EXCEPT ![k] = [kind |-> "foreign"]]
  /\ corruptions' = corruptions + 1
  /\ UNCHANGED <<applied, callerVars, raceVars, star>>

\* A stored next_index points anywhere.
CorruptLink ==
  /\ corruptions < MaxCorrupt
  /\ \E k \in 0..MaxIndex, v \in LinkValues :
       /\ ledger[k].kind \in {"root", "node"}
       /\ ledger[k].next_index # v
       /\ ledger' = [ledger EXCEPT ![k].next_index = v]
  /\ corruptions' = corruptions + 1
  /\ UNCHANGED <<applied, callerVars, raceVars, star>>

\* A stored index field differs from the index of the node's address.
CorruptIndex ==
  /\ corruptions < MaxCorrupt
  /\ \E k \in 1..MaxIndex, v \in LinkValues :
       /\ ledger[k].kind = "node"
       /\ ledger[k].index # v
       /\ ledger' = [ledger EXCEPT ![k].index = v]
  /\ corruptions' = corruptions + 1
  /\ UNCHANGED <<applied, callerVars, raceVars, star>>

\* As getEscrowAccounts_start, but the walk begins at index 1 whatever the root links to.
getEscrowAccounts_start_atOne(l) ==
  LET root == getEscrowRootAccount(l) IN
  IF root = Null THEN U32_MAX ELSE 1

\* let root = await getEscrowRootAccount(..); let index = root == null ? U32_MAX : root.next_index
getEscrowAccounts_start(l) ==
  LET root == getEscrowRootAccount(l) IN
  IF root = Null THEN U32_MAX ELSE root.next_index

\* As getEscrowAccounts_turn, but a missing node ends the walk with the list so far.
getEscrowAccounts_turn_partial(l, idx, accs, senderFilter) ==
  IF idx < U32_MAX
    THEN LET account == getEscrowAccount(l, idx) IN
         IF account = Null
           THEN [pc |-> "done", err |-> "", index |-> idx, accounts |-> accs]
         ELSE IF account.kind = "throw"
           THEN [pc |-> "error", err |-> account.error, index |-> idx, accounts |-> accs]
         ELSE [pc |-> "list_loop", err |-> "", index |-> account.next_index,
               accounts |-> IF senderFilter = NoFilter \/ account.sender = senderFilter.key
                              THEN Append(accs, account) ELSE accs]
    ELSE [pc |-> "done", err |-> "", index |-> idx, accounts |-> accs]

\* As getEscrowAccounts_turn, but the walk goes on at the index after the node's
\* own instead of at its next_index.
getEscrowAccounts_turn_adjacent(l, idx, accs, senderFilter) ==
  IF idx < U32_MAX
    THEN LET account == getEscrowAccount(l, idx) IN
         IF account = Null
           THEN [pc |-> "error", err |-> NullPointerError, index |-> idx, accounts |-> accs]
         ELSE IF account.kind = "throw"
           THEN [pc |-> "error", err |-> account.error, index |-> idx, accounts |-> accs]
         ELSE [pc |-> "list_loop", err |-> "",
               index |-> IF account.next_index < U32_MAX
                           THEN account.index + 1 ELSE account.next_index,
               accounts |-> IF senderFilter = NoFilter \/ account.sender = senderFilter.key
                              THEN Append(accs, account) ELSE accs]
    ELSE [pc |-> "done", err |-> "", index |-> idx, accounts |-> accs]

\* As getEscrowAccounts_turn, but the walk ends at the first node of another sender.
getEscrowAccounts_turn_stopAtOther(l, idx, accs, senderFilter) ==
  IF idx < U32_MAX
    THEN LET account == getEscrowAccount(l, idx) IN
         IF account = Null
           THEN [pc |-> "error", err |-> NullPointerError, index |-> idx, accounts |-> accs]
         ELSE IF account.kind = "throw"
           THEN [pc |-> "error", err |-> account.error, index |-> idx, accounts |-> accs]
         ELSE IF senderFilter = NoFilter \/ account.sender = senderFilter.key
           THEN [pc |-> "list_loop", err |-> "", index |-> account.next_index,
                 accounts |-> Append(accs, account)]
         ELSE [pc |-> "list_loop", err |-> "", index |-> U32_MAX, accounts |-> accs]
    ELSE [pc |-> "done", err |-> "", index |-> idx, accounts |-> accs]

\* One turn of `while (index < U32_MAX)`: the locals after it.
getEscrowAccounts_turn(l, idx, accs, senderFilter) ==
  IF idx < U32_MAX
    THEN LET account == getEscrowAccount(l, idx) IN
         IF account = Null
           THEN [pc |-> "error", err |-> NullPointerError, index |-> idx, accounts |-> accs]
         ELSE IF account.kind = "throw"
           THEN [pc |-> "error", err |-> account.error, index |-> idx, accounts |-> accs]
         ELSE [pc |-> "list_loop", err |-> "", index |-> account.next_index,
               accounts |-> IF senderFilter = NoFilter \/ account.sender = senderFilter.key
                              THEN Append(accs, account) ELSE accs]
    ELSE [pc |-> "done", err |-> "", index |-> idx, accounts |-> accs]

getEscrowAccounts_root(c) ==
  /\ pc[c] = "idle"
  /\ \E senderFilter \in {NoFilter} \cup {[kind |-> "key", key |-> s] : s \in Senders} :
       filter' = [filter EXCEPT ![c] = senderFilter]
  /\ op' = [op EXCEPT ![c] = "list"]
  /\ index' = [index EXCEPT ![c] = getEscrowAccounts_start(ledger)]
  /\ accounts' = [accounts EXCEPT ![c] = <<>>]
  /\ pc' = [pc EXCEPT ![c] = "list_loop"]
  /\ UNCHANGED <<ledgerVars, fetched, arg, calls, result, err, raceVars, star>>

getEscrowAccounts_loop(c) ==
  /\ pc[c] = "list_loop"
  /\ index[c] < U32_MAX => Len(fetched[c]) < MaxFetch
  /\ LET t == getEscrowAccounts_turn(ledger, index[c], accounts[c], filter[c]) IN
       /\ pc' = [pc EXCEPT ![c] = t.pc]
       /\ err' = [err EXCEPT ![c] = t.err]
       /\ index' = [index EXCEPT ![c] = t.index]
       /\ accounts' = [accounts EXCEPT ![c] = t.accounts]
       /\ result' = [result EXCEPT ![c] =
                       IF t.pc = "done" THEN [kind |-> "list", accounts |-> t.accounts]
                       ELSE None]
  /\ fetched' = [fetched EXCEPT ![c] =
                   IF index[c] < U32_MAX THEN Append(@, index[c]) ELSE @]
  /\ UNCHANGED <<ledgerVars, op, filter, arg, calls, raceVars, star>>

\* ------------------------------------------ getNextAvailableEscrowAccount
\* As getNextAvailableEscrowAccount_start, but the slot after a root that points
\* past 1 forgets the root's next_index.
getNextAvailableEscrowAccount_start_terminal(l) ==
  LET rootState == getEscrowRootAccount(l) IN
  IF rootState = Null
    THEN [pc |-> "done", index |-> 0,
          result |-> EscrowState_empty(1, 0, U32_MAX, getEscrowAccountKey(1))]
  ELSE IF rootState.next_index > 1
    THEN [pc |-> "done", index |-> 0,
          result |-> EscrowState_empty(1, 0, U32_MAX, getEscrowAccountKey(1))]
  ELSE [pc |-> "next_loop", index |-> 1, result |-> None]

\* As getNextAvailableEscrowAccount_start, but with the root pointing past 1
\* the walk goes on at the node the root points to.
getNextAvailableEscrowAccount_start_pastGap(l) ==
  LET rootState == getEscrowRootAccount(l) IN
  IF rootState = Null
    THEN [pc |-> "done", index |-> 0,
          result |-> EscrowState_empty(1, 0, U32_MAX, getEscrowAccountKey(1))]
  ELSE IF rootState.next_index > 1 /\ rootState.next_index < U32_MAX
    THEN [pc |-> "next_loop", index |-> rootState.next_index, result |-> None]
  ELSE IF rootState.next_index > 1
    THEN [pc |-> "done", index |-> 0,
          result |-> EscrowState_empty(1, 0, rootState.next_index, getEscrowAccountKey(1))]
  ELSE [pc |-> "next_loop", index |-> 1, result |-> None]

\* The reads and returns before `let index = 1`.
getNextAvailableEscrowAccount_start(l) ==
  LET rootState == getEscrowRootAccount(l) IN
  IF rootState = Null
    THEN [pc |-> "done", index |-> 0,
          result |-> EscrowState_empty(1, 0, U32_MAX, getEscrowAccountKey(1))]
  ELSE IF rootState.next_index > 1
    THEN [pc |-> "done", index |-> 0,
          result |-> EscrowState_empty(1, 0, rootState.next_index, getEscrowAccountKey(1))]
  ELSE [pc |-> "next_loop", index |-> 1, result |-> None]

\* As getNextAvailableEscrowAccount_turn, but with >= for > in the test of the gap.
getNextAvailableEscrowAccount_turn_offByOne(l, idx) ==
  LET accountState == EscrowState_retrieve(l, getEscrowAccountKey(idx)) IN
  IF accountState = Null
    THEN [pc |-> "error", err |-> NullPointerError, index |-> idx, result |-> None]
  ELSE IF accountState.kind = "throw"
    THEN [pc |-> "error", err |-> accountState.error, index |-> idx, result |-> None]
  ELSE IF accountState.next_index >= idx + 1
    THEN [pc |-> "done", err |-> "", index |-> idx + 1,
          result |-> EscrowState_empty(idx + 1, accountState.index,
                                       accountState.next_index,
                                       getEscrowAccountKey(idx + 1))]
  ELSE [pc |-> "next_loop", err |-> "", index |-> idx + 1, result |-> None]

\* As getNextAvailableEscrowAccount_turn, but the slot always ends the chain.
getNextAvailableEscrowAccount_turn_terminalNext(l, idx) ==
  LET accountState == EscrowState_retrieve(l, getEscrowAccountKey(idx)) IN
  IF accountState = Null
    THEN [pc |-> "error", err |-> NullPointerError, index |-> idx, result |-> None]
  ELSE IF accountState.kind = "throw"
    THEN [pc |-> "error", err |-> accountState.error, index |-> idx, result |-> None]
  ELSE IF accountState.next_index > idx + 1
    THEN [pc |-> "done", err |-> "", index |-> idx + 1,
          result |-> EscrowState_empty(idx + 1, accountState.index,
                                       U32_MAX,
                                       getEscrowAccountKey(idx + 1))]
  ELSE [pc |-> "next_loop", err |-> "", index |-> idx + 1, result |-> None]

\* As getNextAvailableEscrowAccount_turn, but the slot carries the address of the node read.
getNextAvailableEscrowAccount_turn_staleKey(l, idx) ==
  LET accountState == EscrowState_retrieve(l, getEscrowAccountKey(idx)) IN
  IF accountState = Null
    THEN [pc |-> "error", err |-> NullPointerError, index |-> idx, result |-> None]
  ELSE IF accountState.kind = "throw"
    THEN [pc |-> "error", err |-> accountState.error, index |-> idx, result |-> None]
  ELSE IF accountState.next_index > idx + 1
    THEN [pc |-> "done", err |-> "", index |-> idx + 1,
          result |-> EscrowState_empty(idx + 1, accountState.index,
                                       accountState.next_index,
                                       getEscrowAccountKey(idx))]
  ELSE [pc |-> "next_loop", err |-> "", index |-> idx + 1, result |-> None]

\* As getNextAvailableEscrowAccount_turn, but a missing node is taken as the free slot.
getNextAvailableEscrowAccount_turn_pastEnd(l, idx) ==
  LET accountState == EscrowState_retrieve(l, getEscrowAccountKey(idx)) IN
  IF accountState = Null
    THEN [pc |-> "done", err |-> "", index |-> idx,
          result |-> EscrowState_empty(idx, idx - 1, U32_MAX, getEscrowAccountKey(idx))]
  ELSE IF accountState.kind = "throw"
    THEN [pc |-> "error", err |-> accountState.error, index |-> idx, result |-> None]
  ELSE IF accountState.next_index > idx + 1
    THEN [pc |-> "done", err |-> "", index |-> idx + 1,
          result |-> EscrowState_empty(idx + 1, accountState.index,
                                       accountState.next_index,
                                       getEscrowAccountKey(idx + 1))]
  ELSE [pc |-> "next_loop", err |-> "", index |-> idx + 1, result |-> None]

\* One turn of `while (true)`: the locals after it.
getNextAvailableEscrowAccount_turn(l, idx) ==
  LET accountState == EscrowState_retrieve(l, getEscrowAccountKey(idx)) IN
  IF accountState = Null
    THEN [pc |-> "error", err |-> NullPointerError, index |-> idx, result |-> None]
  ELSE IF accountState.kind = "throw"
    THEN [pc |-> "error", err |-> accountState.error, index |-> idx, result |-> None]
  ELSE IF accountState.next_index > idx + 1
    THEN [pc |-> "done", err |-> "", index |-> idx + 1,
          result |-> EscrowState_empty(idx + 1, accountState.index,
                                       accountState.next_index,
                                       getEscrowAccountKey(idx + 1))]
  ELSE [pc |-> "next_loop", err |-> "", index |-> idx + 1, result |-> None]

getNextAvailableEscrowAccount_root(c) ==
  /\ pc[c] = "idle"
  /\ LET t == getNextAvailableEscrowAccount_start(ledger) IN
       /\ pc' = [pc EXCEPT ![c] = t.pc]
       /\ index' = [index EXCEPT ![c] = t.index]
       /\ result' = [result EXCEPT ![c] = t.result]
  /\ op' = [op EXCEPT ![c] = "next"]
  /\ UNCHANGED <<ledgerVars, filter, accounts, fetched, arg, calls, err, raceVars, star>>

getNextAvailableEscrowAccount_loop(c) ==
  /\ pc[c] = "next_loop"
  /\ LET t == getNextAvailableEscrowAccount_turn(ledger, index[c]) IN
       /\ pc' = [pc EXCEPT ![c] = t.pc]
       /\ err' = [err EXCEPT ![c] = t.err]
       /\ index' = [index EXCEPT ![c] = t.index]
       /\ result' = [result EXCEPT ![c] = t.result]
  /\ fetched' = [fetched EXCEPT ![c] = Append(@, index[c])]
  /\ UNCHANGED <<ledgerVars, op, filter, accounts, arg, calls, raceVars, star>>

\* The caller takes the returned value or the raised error; its locals are gone.
Return(c) ==
  /\ pc[c] \in {"done", "error", "built"}
  /\ pc' = [pc EXCEPT ![c] = "idle"]
  /\ op' = [op EXCEPT ![c] = "none"]
  /\ filter' = [filter EXCEPT ![c] = NoFilter]
  /\ index' = [index EXCEPT ![c] = 0]
  /\ accounts' = [accounts EXCEPT ![c] = <<>>]
  /\ fetched' = [fetched EXCEPT ![c] = <<>>]
  /\ arg' = [arg EXCEPT ![c] = NoArg]
  /\ calls' = [calls EXCEPT ![c] = <<>>]
  /\ result' = [result EXCEPT ![c] = None]
  /\ err' = [err EXCEPT ![c] = ""]
  /\ inserted' = [inserted EXCEPT ![c] = FALSE]
  /\ deleted' = [deleted EXCEPT ![c] = FALSE]
  /\ UNCHANGED <<ledgerVars, star>>

\* ------------------------------------------------------ numbers and bytes
\* Buffer.from(Uint8Array.from[n]): the one byte n is stored as.
U8Buffer(n) == << n % 256 >>

\* A non-negative integer of up to 48 bits, by its upper bits and its lower 16 bits.
Num(hi, lo) == [hi |-> hi, lo |-> lo]

\* The number an integer below 2^31 is.
NumOf(n) == Num(n \div 65536, n % 65536)

\* 0xffffffff
U32_MAX_Num == Num(65535, 65535)

\* a <= b
NumLE(a, b) == a.hi < b.hi \/ (a.hi = b.hi /\ a.lo <= b.lo)

RECURSIVE StripZeros(_)
\* A byte array without its leading zero bytes, one byte at least.
StripZeros(bytes) ==
  IF Len(bytes) > 1 /\ bytes[1] = 0 THEN StripZeros(Tail(bytes)) ELSE bytes

\* BN.toArray(): the bytes of the number, most significant first, without leading zeros.
BN_toArray(num) ==
  StripZeros(<< (num.hi \div 16777216) % 256, (num.hi \div 65536) % 256,
                (num.hi \div 256) % 256, num.hi % 256,
                (num.lo \div 256) % 256, num.lo % 256 >>)

Reverse(seq) == [i \in 1..Len(seq) |-> seq[Len(seq) + 1 - i]]

\* As Numberu32_toBuffer, but a number of more than four bytes is cut to its low four.
Numberu32_toBuffer_truncating(value) ==
  LET b == Reverse(BN_toArray(value)) IN
  IF Len(b) = 4 THEN b
  ELSE IF Len(b) >= 4 THEN SubSeq(b, 1, 4)
  ELSE b \o [i \in 1..(4 - Len(b)) |-> 0]

\* new Numberu32(value).toBuffer(): four bytes, least significant first.
Numberu32_toBuffer(value) ==
  LET b == Reverse(BN_toArray(value)) IN
  IF Len(b) = 4 THEN b
  ELSE IF Len(b) >= 4 THEN Thrown("Numberu32 too large")
  ELSE b \o [i \in 1..(4 - Len(b)) |-> 0]

RECURSIVE ParseHex(_, _)
\* The value of a string of hex digits, after the digits read so far gave acc.
ParseHex(digits, acc) ==
  IF digits = <<>> THEN acc ELSE ParseHex(Tail(digits), 16 * acc + Head(digits))

\* Numberu32.fromBuffer(buffer)
Numberu32_fromBuffer(buffer) ==
  IF Len(buffer) # 4 THEN Thrown("Invalid buffer length")
  ELSE LET rev == Reverse(buffer)
           \* `00${i.toString(16)}`.slice(-2) of every byte, joined: eight hex digits
           hex == [k \in 1..8 |-> IF k % 2 = 1 THEN rev[(k + 1) \div 2] \div 16
                                                ELSE rev[k \div 2] % 16]
       IN Num(ParseHex(SubSeq(hex, 1, 4), 0), ParseHex(SubSeq(hex, 5, 8), 0))

\* ----------------------------------------------------------- instructions
\* Whether a value is a thrown error rather than a buffer.
IsThrown(v) == DOMAIN v = DOMAIN Thrown("")

\* new Numberu64(buffer).toBuffer(): eight bytes, least significant first.
Numberu64_toBuffer(value) ==
  LET b == Reverse(BN_toArray(value)) IN
  IF Len(b) = 8 THEN b
  ELSE IF Len(b) >= 8 THEN Thrown("Numberu64 too large")
  ELSE b \o [i \in 1..(8 - Len(b)) |-> 0]

RECURSIVE Buffer_concat(_)
\* Buffer.concat(buffers); building the list stops at the first element that threw.
Buffer_concat(buffers) ==
  IF buffers = <<>> THEN <<>>
  ELSE IF IsThrown(Head(buffers)) THEN Head(buffers)
  ELSE LET rest == Buffer_concat(Tail(buffers)) IN
       IF IsThrown(rest) THEN rest ELSE Head(buffers) \o rest

\* A 32-byte public key, every byte b.
IxKey(b) == [kind |-> "key", bytes |-> [i \in 1..32 |-> b]]

\* key.toBuffer()
PublicKey_toBuffer(key) == key.bytes

\* The number an index of the chain is: U32_MAX is 0xffffffff.
IndexNum(i) == IF i = U32_MAX THEN U32_MAX_Num ELSE NumOf(i)

AccountMeta(pubkey, isSigner, isWritable) ==
  [pubkey |-> pubkey, isSigner |-> isSigner, isWritable |-> isWritable]

ProgramKey(n) == [accountType |-> 0, name |-> n]

\* new TransactionInstruction{keys, programId, data}, or what building data threw.
TransactionInstruction(keys, data) ==
  IF IsThrown(data) THEN data
  ELSE [kind |-> "ix", keys |-> keys, programId |-> ProgramKey("starmap"), data |-> data]

authorizeNameInstruction(payerKey, nameAccountKey, hashed_name, recordType, dataSize) ==
  TransactionInstruction(
    << AccountMeta(ProgramKey("system"), FALSE, FALSE),
       AccountMeta(payerKey, TRUE, TRUE),
       AccountMeta(nameAccountKey, FALSE, TRUE),
       AccountMeta(ProgramKey("treasury"), FALSE, TRUE),
       AccountMeta(ProgramKey("config"), FALSE, FALSE) >>,
    Buffer_concat(<< U8Buffer(0), hashed_name, U8Buffer(recordType),
                     Numberu32_toBuffer(dataSize) >>))

setClaimKeyInstruction(nameAccountKey, signatoryKey, claimKey) ==
  TransactionInstruction(
    << AccountMeta(nameAccountKey, FALSE, TRUE),
       AccountMeta(signatoryKey, TRUE, FALSE) >>,
    Buffer_concat(<< U8Buffer(1), PublicKey_toBuffer(claimKey) >>))

assignNameInstruction(nameAccountKey, signatoryKey, ownerKey) ==
  TransactionInstruction(
    << AccountMeta(nameAccountKey, FALSE, TRUE),
       AccountMeta(signatoryKey, TRUE, FALSE) >>,
    Buffer_concat(<< U8Buffer(2), PublicKey_toBuffer(ownerKey) >>))

transferNameInstruction(nameAccountKey, currentOwnerKey, newOwnerKey) ==
  TransactionInstruction(
    << AccountMeta(nameAccountKey, FALSE, TRUE),
       AccountMeta(currentOwnerKey, TRUE, FALSE),
       AccountMeta(ProgramKey("treasury"), FALSE, TRUE),
       AccountMeta(ProgramKey("config"), FALSE, FALSE) >>,
    Buffer_concat(<< U8Buffer(3), PublicKey_toBuffer(newOwnerKey) >>))

\* As updateNameInstruction, but the length written is one more than the data's.
updateNameInstruction_lenOff(nameAccountKey, accountOwnerKey, offset, newData) ==
  TransactionInstruction(
    << AccountMeta(nameAccountKey, FALSE, TRUE),
       AccountMeta(accountOwnerKey, TRUE, FALSE) >>,
    Buffer_concat(<< U8Buffer(4), Numberu32_toBuffer(offset),
                     Numberu32_toBuffer(NumOf(Len(newData) + 1)), newData >>))

updateNameInstruction(nameAccountKey, accountOwnerKey, offset, newData) ==
  TransactionInstruction(
    << AccountMeta(nameAccountKey, FALSE, TRUE),
       AccountMeta(accountOwnerKey, TRUE, FALSE) >>,
    Buffer_concat(<< U8Buffer(4), Numberu32_toBuffer(offset),
                     Numberu32_toBuffer(NumOf(Len(newData))), newData >>))

deleteNameInstruction(nameAccountKey, refundTargetKey, nameOwnerKey) ==
  TransactionInstruction(
    << AccountMeta(nameAccountKey, FALSE, TRUE),
       AccountMeta(nameOwnerKey, TRUE, FALSE),
       AccountMeta(refundTargetKey, FALSE, TRUE),
       AccountMeta(ProgramKey("treasury"), FALSE, TRUE),
       AccountMeta(ProgramKey("config"), FALSE, FALSE) >>,
    Buffer_concat(<< U8Buffer(5) >>))

\* The fields of an escrow instruction the ledger program reads from its payload.
WithIndices(ix, prevIndex, currIndex, nextIndex) ==
  IF IsThrown(ix) THEN ix
  ELSE [kind |-> ix.kind, keys |-> ix.keys, programId |-> ix.programId, data |-> ix.data,
        opcode |-> ix.data[1],
        prevIndex |-> prevIndex, currIndex |-> currIndex, nextIndex |-> nextIndex]

createEscrowInstruction(payerKey, nameAccountKey, prevKey, currKey, nextKey, hashed_name, recordType, prevIndex, currIndex, nextIndex, mint) ==
  WithIndices(
    TransactionInstruction(
      << AccountMeta(ProgramKey("system"), FALSE, FALSE),
         AccountMeta(payerKey, TRUE, TRUE),
         AccountMeta(nameAccountKey, FALSE, FALSE),
         AccountMeta(prevKey, FALSE, TRUE),
         AccountMeta(currKey, FALSE, TRUE),
         AccountMeta(nextKey, FALSE, TRUE),
         AccountMeta(ProgramKey("treasury"), FALSE, TRUE),
         AccountMeta(ProgramKey("config"), FALSE, FALSE) >>,
      Buffer_concat(<< U8Buffer(6), hashed_name, U8Buffer(recordType),
                       Numberu32_toBuffer(IndexNum(prevIndex)),
                       Numberu32_toBuffer(IndexNum(currIndex)),
                       Numberu32_toBuffer(IndexNum(nextIndex)),
                       PublicKey_toBuffer(mint) >>)),
    prevIndex, currIndex, nextIndex)

withdrawEscrowInstruction(requesterKey, nameAccountKey, escrowKey, srcTokenAccountKey, dstTokenAccountKey, hashed_name, recordType, idx, amount) ==
  TransactionInstruction(
    << AccountMeta(requesterKey, TRUE, TRUE),
       AccountMeta(nameAccountKey, FALSE, FALSE),
       AccountMeta(escrowKey, FALSE, TRUE),
       AccountMeta(srcTokenAccountKey, FALSE, TRUE),
       AccountMeta(dstTokenAccountKey, FALSE, TRUE),
       AccountMeta(ProgramKey("spl-token"), FALSE, FALSE),
       AccountMeta(ProgramKey("treasury"), FALSE, TRUE),
       AccountMeta(ProgramKey("config"), FALSE, FALSE) >>,
    Buffer_concat(<< U8Buffer(7), hashed_name, U8Buffer(recordType),
                     Numberu32_toBuffer(IndexNum(idx)), Numberu64_toBuffer(amount) >>))

deleteEscrowInstruction(requesterKey, senderKey, nameAccountKey, prevKey, currKey, nextKey, hashed_name, recordType, prevIndex, currIndex, nextIndex) ==
  WithIndices(
    TransactionInstruction(
      << AccountMeta(ProgramKey("system"), FALSE, FALSE),
         AccountMeta(requesterKey, TRUE, FALSE),
         AccountMeta(senderKey, FALSE, TRUE),
         AccountMeta(nameAccountKey, FALSE, FALSE),
         AccountMeta(prevKey, FALSE, TRUE),
         AccountMeta(currKey, FALSE, TRUE),
         AccountMeta(nextKey, FALSE, TRUE),
         AccountMeta(ProgramKey("treasury"), FALSE, TRUE),
         AccountMeta(ProgramKey("config"), FALSE, FALSE) >>,
      Buffer_concat(<< U8Buffer(8), hashed_name, U8Buffer(recordType),
                       Numberu32_toBuffer(IndexNum(prevIndex)),
                       Numberu32_toBuffer(IndexNum(currIndex)),
                       Numberu32_toBuffer(IndexNum(nextIndex)) >>)),
    prevIndex, currIndex, nextIndex)

updateConfigInstruction(accountKey, authorityKey, configType, offset, newData) ==
  TransactionInstruction(
    << AccountMeta(ProgramKey("system"), FALSE, FALSE),
       AccountMeta(authorityKey, TRUE, TRUE),
       AccountMeta(accountKey, FALSE, TRUE) >>,
    Buffer_concat(<< U8Buffer(9), U8Buffer(configType), Numberu32_toBuffer(offset),
                     Numberu32_toBuffer(NumOf(Len(newData))), newData >>))

\* The digest of the builders' one identifier, and the mint of its escrowed funds.
HashedName == [i \in 1..32 |-> i]

\* ------------------------------ createEscrowAccount / deleteEscrowAccount
MAX_NAME_LENGTH == 255

\* A name, by the length the check of getHashedName looks at.
Names == {[length |-> MAX_NAME_LENGTH], [length |-> MAX_NAME_LENGTH + 1]}

Call(fn, i) == [fn |-> fn, index |-> i]

\* The calls the builders make after the check of the triple, up to the first throw.
BuilderCalls(name, escrow) ==
  IF name.length > MAX_NAME_LENGTH
    THEN << Call("getHashedName", 0) >>
    ELSE << Call("getHashedName", 0),
            Call("getNameAccountKey", 0),
            Call("getEscrowAccountKey", escrow.prev_index),
            Call("getEscrowAccountKey", escrow.index),
            Call("getEscrowAccountKey", escrow.next_index) >>

\* As InvalidTriple, but with the strict order of the thrown message.
InvalidTriple_strict(escrow) ==
  \/ escrow.index < 1
  \/ escrow.prev_index >= escrow.index
  \/ escrow.next_index <= escrow.index

\* if (escrow.index < 1 || escrow.prev_index > escrow.index || escrow.next_index < escrow.index) throw
InvalidTriple(escrow) ==
  \/ escrow.index < 1
  \/ escrow.prev_index > escrow.index
  \/ escrow.next_index < escrow.index

\* As createEscrowAccount, but the addresses of the neighbours change places.
createEscrowAccount_swappedKeys(name, payerKey, escrow) ==
  IF InvalidTriple(escrow)
    THEN [pc |-> "error", err |-> InvalidIndexError, calls |-> <<>>, result |-> None]
  ELSE IF name.length > MAX_NAME_LENGTH
    THEN [pc |-> "error", err |-> NameLengthError,
          calls |-> BuilderCalls(name, escrow), result |-> None]
  ELSE [pc |-> "built", err |-> "", calls |-> BuilderCalls(name, escrow),
        result |-> createEscrowInstruction(
                     payerKey, getNameAccountKey,
                     getEscrowAccountKey(escrow.next_index),
                     getEscrowAccountKey(escrow.index),
                     getEscrowAccountKey(escrow.prev_index),
                     HashedName, RecordType_Phone,
                     escrow.prev_index, escrow.index, escrow.next_index, IxKey(9))]

\* What createEscrowAccount(name, recordType, payerKey, escrow, mint) comes to.
createEscrowAccount(name, payerKey, escrow) ==
  IF InvalidTriple(escrow)
    THEN [pc |-> "error", err |-> InvalidIndexError, calls |-> <<>>, result |-> None]
  ELSE IF name.length > MAX_NAME_LENGTH
    THEN [pc |-> "error", err |-> NameLengthError,
          calls |-> BuilderCalls(name, escrow), result |-> None]
  ELSE [pc |-> "built", err |-> "", calls |-> BuilderCalls(name, escrow),
        result |-> createEscrowInstruction(
                     payerKey, getNameAccountKey,
                     getEscrowAccountKey(escrow.prev_index),
                     getEscrowAccountKey(escrow.index),
                     getEscrowAccountKey(escrow.next_index),
                     HashedName, RecordType_Phone,
                     escrow.prev_index, escrow.index, escrow.next_index, IxKey(9))]

\* What deleteEscrowAccount(name, recordType, payerKey, escrow) comes to.
deleteEscrowAccount(name, payerKey, escrow) ==
  IF InvalidTriple(escrow)
    THEN [pc |-> "error", err |-> InvalidIndexError, calls |-> <<>>, result |-> None]
  ELSE IF name.length > MAX_NAME_LENGTH
    THEN [pc |-> "error", err |-> NameLengthError,
          calls |-> BuilderCalls(name, escrow), result |-> None]
  ELSE [pc |-> "built", err |-> "", calls |-> BuilderCalls(name, escrow),
        result |-> deleteEscrowInstruction(
                     payerKey, escrow.sender, getNameAccountKey,
                     getEscrowAccountKey(escrow.prev_index),
                     getEscrowAccountKey(escrow.index),
                     getEscrowAccountKey(escrow.next_index),
                     HashedName, RecordType_Phone,
                     escrow.prev_index, escrow.index, escrow.next_index)]

\* The EscrowState values a caller can hand to the builders.
EscrowInputs ==
  { EscrowState_empty(i, p, n, getEscrowAccountKey(i)) :
      i \in 0..U32_MAX, p \in 0..U32_MAX, n \in 0..U32_MAX }

\* The caller's locals after a builder came to t on the input escrow.
Built(c, which, escrow, t) ==
  /\ op' = [op EXCEPT ![c] = which]
  /\ arg' = [arg EXCEPT ![c] = escrow]
  /\ pc' = [pc EXCEPT ![c] = t.pc]
  /\ err' = [err EXCEPT ![c] = t.err]
  /\ calls' = [calls EXCEPT ![c] = t.calls]
  /\ result' = [result EXCEPT ![c] = t.result]
  /\ UNCHANGED <<ledgerVars, filter, index, accounts, fetched, raceVars, star>>

\* Discovery then construction: createEscrowAccount on the slot that
\* getNextAvailableEscrowAccount returned.
createEscrowAccount_slot(c) ==
  /\ pc[c] = "done"
  /\ op[c] = "next"
  /\ Built(c, "create", result[c], createEscrowAccount([length |-> MAX_NAME_LENGTH], SenderOf(c), result[c]))

\* The caller submits the built createEscrow instruction: the program applies
\* it atomically if its check of the triple passes and rejects it otherwise.
SubmitCreate(c) ==
  /\ pc[c] = "built"
  /\ op[c] = "create"
  /\ LET ix == result[c]
         ok == ProgramAcceptsInsert(ledger, ix.prevIndex, ix.currIndex, ix.nextIndex)
     IN /\ ledger' = IF ok
                       THEN ProgramInsert(ledger, ix.prevIndex, ix.currIndex,
                                          ix.nextIndex, SenderOf(c))
                       ELSE ledger
        /\ applied' = IF ok
                        THEN Append(applied, <<ix.prevIndex, ix.currIndex, ix.nextIndex>>)
                        ELSE applied
        /\ inserted' = [d \in Callers |->
                          IF d = c THEN FALSE ELSE inserted[d] \/ (ok /\ pc[d] # "idle")]
  /\ pc' = [pc EXCEPT ![c] = "idle"]
  /\ op' = [op EXCEPT ![c] = "none"]
  /\ index' = [index EXCEPT ![c] = 0]
  /\ fetched' = [fetched EXCEPT ![c] = <<>>]
  /\ arg' = [arg EXCEPT ![c] = NoArg]
  /\ calls' = [calls EXCEPT ![c] = <<>>]
  /\ result' = [result EXCEPT ![c] = None]
  /\ err' = [err EXCEPT ![c] = ""]
  /\ deleted' = [deleted EXCEPT ![c] = FALSE]
  /\ UNCHANGED <<corruptions, filter, accounts, star>>

getHashedName(name) ==
  IF name.length > MAX_NAME_LENGTH
    THEN [pc |-> "error", err |-> NameLengthError, calls |-> <<>>, result |-> None]
    ELSE [pc |-> "done", err |-> "", calls |-> <<>>,
          \* createHash('sha256').update(name, 'utf8').digest()
          result |-> [kind |-> "digest", of |-> name.chars, bytes |-> name.utf8]]

\* What a call of toBuffer or fromBuffer comes to.
Outcome(v) ==
  IF v.kind = "throw"
    THEN [pc |-> "error", err |-> v.error, calls |-> <<>>, result |-> None]
    ELSE [pc |-> "done", err |-> "", calls |-> <<>>, result |-> v]

\* --------------------------------------------- the instruction builders
\* An optional argument left out.
Undefined == [kind |-> "undefined"]

IxKeys == {IxKey(1), IxKey(2)}
IxRecordTypes == {RecordType_Phone, RecordType_Bonfida}
IxData == {<<>>, <<7>>, <<7, 8, 9>>, [i \in 1..258 |-> i % 256]}

\* What a call of a builder comes to: the instruction, or the error thrown.
IxOutcome(ix) ==
  IF IsThrown(ix)
    THEN [pc |-> "error", err |-> ix.error, calls |-> <<>>, result |-> None]
    ELSE [pc |-> "built", err |-> "", calls |-> <<>>, result |-> ix]

\* deleteNameRegistry(name, recordType, owner, refundTargetKey?)
deleteNameRegistry(name, owner, refundTargetKey) ==
  IF name.length > MAX_NAME_LENGTH
    THEN [pc |-> "error", err |-> NameLengthError, calls |-> <<>>, result |-> None]
    ELSE LET refundTarget == IF refundTargetKey.kind # "undefined" THEN refundTargetKey ELSE owner
         IN IxOutcome(deleteNameInstruction(getNameAccountKey, owner, refundTarget))

NameParseResult(recordType, normalizedName, parseError) ==
  [kind |-> "parsed", recordType |-> recordType, normalizedName |-> normalizedName,
   parseError |-> parseError]

ParseError(message) == [kind |-> "ParseError", message |-> message]

\* As parseName, but a number that is not valid carries no parseError.
parseName_silentInvalid(input) ==
  IF input.isEmail
    THEN NameParseResult(RecordType_Email, "normalizeEmail(input)", Undefined)
  ELSE IF input.length > 4 /\ input.endsWithSol
    THEN NameParseResult(RecordType_Bonfida, "input.trim()", Undefined)
  ELSE IF input.phone.kind = "valid"
    THEN NameParseResult(RecordType_Phone, "phoneNumber.number", Undefined)
  ELSE IF input.phone.kind = "invalid"
    THEN NameParseResult(RecordType_Invalid, "AsYouType ...", Undefined)
  ELSE IF input.phone.kind = "ParseError"
    THEN NameParseResult(RecordType_Invalid, "input", input.phone)
  ELSE NameParseResult(RecordType_Invalid, "input", ParseError("NOT_A_NUMBER"))

parseName(input) ==
  IF input.isEmail
    THEN NameParseResult(RecordType_Email, "normalizeEmail(input)", Undefined)
  ELSE IF input.length > 4 /\ input.endsWithSol
    THEN NameParseResult(RecordType_Bonfida, "input.trim()", Undefined)
  ELSE IF input.phone.kind = "valid"
    THEN NameParseResult(RecordType_Phone, "phoneNumber.number", Undefined)
  ELSE IF input.phone.kind = "invalid"
    THEN NameParseResult(RecordType_Invalid, "AsYouType ...", ParseError("INVALID"))
  ELSE IF input.phone.kind = "ParseError"
    THEN NameParseResult(RecordType_Invalid, "input", input.phone)
  ELSE NameParseResult(RecordType_Invalid, "input", ParseError("NOT_A_NUMBER"))

\* ------------------------------------------------------ address derivation
AccountType_Config == 3
AccountType_NotifyReq == 4

\* The seeds getNameAccountKey hands to findProgramAddress.
getNameAccountKey_seeds(hashedName, recordType) ==
  << U8Buffer(AccountType_Record), U8Buffer(recordType), hashedName >>

\* The seeds getEscrowAccountKey hands to findProgramAddress.
getEscrowAccountKey_seeds(hashedName, recordType, idx) ==
  << U8Buffer(AccountType_Escrow), U8Buffer(recordType), hashedName, Numberu32_toBuffer(NumOf(idx)) >>

\* The seeds getConfigAccountKey hands to findProgramAddress.
getConfigAccountKey_seeds(configType) ==
  << U8Buffer(AccountType_Config), U8Buffer(configType) >>

\* The seeds getNotificationAccountKey hands to findProgramAddress.
getNotificationAccountKey_seeds(recordType, transactionId) ==
  << U8Buffer(AccountType_NotifyReq), U8Buffer(recordType), transactionId >>

\* PublicKey.findProgramAddress(seeds, STARMAP_PROGRAM_ID): the address the seed list determines.
findProgramAddress(seeds) ==
  [pc |-> "done", err |-> "", calls |-> <<>>, result |-> [kind |-> "address", seeds |-> seeds]]

\* Digests and transaction ids, by two of their 32 bytes.
Digests == { <<0, 1>>, <<1, 0>> }

\* The record types of the enum and every eighth integer below Bonfida.
RecordTypeInputs == {t \in 0..RecordType_Bonfida : t \in RecordTypes \/ t % 8 = 0}

\* The inputs of the four derivations.
NameKeyInputs ==
  [fn : {"getNameAccountKey"}, accountType : {AccountType_Record},
   recordType : RecordTypeInputs, hashedName : Digests]

EscrowKeyInputs ==
  [fn : {"getEscrowAccountKey"}, accountType : {AccountType_Escrow},
   recordType : RecordTypeInputs, hashedName : Digests, index : {0, 1, 256, 65536, 16777216}]

ConfigKeyInputs ==
  [fn : {"getConfigAccountKey"}, accountType : {AccountType_Config},
   recordType : {ConfigType_Invalid, ConfigType_General}]

NotificationKeyInputs ==
  [fn : {"getNotificationAccountKey"}, accountType : {AccountType_NotifyReq},
   recordType : RecordTypeInputs, transactionId : Digests]

\* -------------------------------------------------------------- StarState
\* A public key, by its 32 bytes.
PublicKey(bytes) == [bytes |-> bytes]

\* PublicKey.default: 32 zero bytes.
PublicKey_default == PublicKey("zero")

\* new PublicKey('11111111111111111111111111111111'): base58 of 32 zero bytes.
RUST_DEFAULT_PUBLIC_KEY == PublicKey("zero")

STARMAP_PROGRAM_ID == PublicKey("starmap")

\* As isDefault, but no key counts as a zero address.
isDefault_never(key) == FALSE

isDefault(key) == key = PublicKey_default \/ key = RUST_DEFAULT_PUBLIC_KEY

RECURSIVE BitAnd(_, _)
\* a & b on non-negative integers.
BitAnd(a, b) ==
  IF a = 0 \/ b = 0 THEN 0
  ELSE (a % 2) * (b % 2) + 2 * BitAnd(a \div 2, b \div 2)

\* 1 << k
Shl1(k) == 2 ^ k

\* As StarStateFlags, but with the bits of the two payment flags exchanged.
StarStateFlags_swapped(state) ==
  [locked |-> BitAnd(state, Shl1(0)) > 0,
   paid_to_verify |-> BitAnd(state, Shl1(2)) > 0,
   paid_to_assign |-> BitAnd(state, Shl1(1)) > 0,
   contested |-> BitAnd(state, Shl1(3)) > 0,
   disable_notifications |-> BitAnd(state, Shl1(4)) > 0]

\* The flags the constructor derives from obj.state.
StarStateFlags(state) ==
  [locked |-> BitAnd(state, Shl1(0)) > 0,
   paid_to_verify |-> BitAnd(state, Shl1(1)) > 0,
   paid_to_assign |-> BitAnd(state, Shl1(2)) > 0,
   contested |-> BitAnd(state, Shl1(3)) > 0,
   disable_notifications |-> BitAnd(state, Shl1(4)) > 0]

\* new StarState(obj), with the field initialisers of the class.
StarState_new(obj) ==
  [kind |-> "star",
   versionMajor |-> obj.versionMajor,
   recordType |-> obj.recordType,
   state |-> obj.state,
   owner |-> obj.owner,
   flags |-> StarStateFlags(obj.state),
   isPresent |-> FALSE,
   isAuthorized |-> FALSE,
   isReadyToAssign |-> FALSE,
   isAssignedAndValid |-> FALSE,
   invalidReason |-> "Need to call StarState.retrieve(...)"]

StarState_empty(invalidReason) ==
  [StarState_new([versionMajor |-> 0, recordType |-> 0, state |-> 0,
                  owner |-> PublicKey("zero")])
     EXCEPT !.invalidReason = invalidReason]

\* StarState.create(recordType, owner)
StarState_create(recordType, owner) ==
  LET ret == StarState_new([versionMajor |-> 0, recordType |-> recordType, state |-> 0,
                            owner |-> owner])
  IN IF isDefault(owner)
       THEN [ret EXCEPT !.invalidReason = "Unowned record"]
       ELSE [ret EXCEPT !.isAssignedAndValid = TRUE]

\* The bytes the schema of StarState reads: u8, u8, u16, [32], [32].
StarState_SCHEMA_LEN == 1 + 1 + 2 + 32 + 32

\* deserializeUnchecked(StarState.schema, StarState, data): the reader throws
\* when the buffer ends inside a field and ignores the bytes after the last one.
StarState_deserialize(data) ==
  IF data.length < StarState_SCHEMA_LEN
    THEN Thrown(DecodeError)
    ELSE StarState_new(data)

\* As StarState_retrieve, but an account of another owner is reported as absent.
StarState_retrieve_sameReason(accountInfo, programId) ==
  IF accountInfo = Null
    THEN StarState_empty("Record account does not exist")
  ELSE IF accountInfo.owner # programId
    THEN StarState_empty("Record account does not exist")
  ELSE
    LET res0 == StarState_deserialize(accountInfo.data) IN
    IF res0.kind = "throw" THEN res0
    ELSE
    LET res == [res0 EXCEPT
                  !.isPresent = TRUE,
                  !.isAuthorized = res0.flags.paid_to_assign /\ res0.flags.paid_to_verify,
                  !.isReadyToAssign = res0.flags.paid_to_assign /\ ~ res0.flags.paid_to_verify]
    IN IF res.versionMajor < StarState_MIN_VERSION
         THEN [res EXCEPT !.invalidReason = "Invalid version"]
       ELSE IF isDefault(res.owner)
         THEN [res EXCEPT !.invalidReason = "Unowned record"]
       ELSE [res EXCEPT !.isAssignedAndValid = TRUE]

\* StarState.retrieve on what getAccountInfo returned for the record's address.
StarState_retrieve(accountInfo, programId) ==
  IF accountInfo = Null
    THEN StarState_empty("Record account does not exist")
  ELSE IF accountInfo.owner # programId
    THEN StarState_empty("Record account exists but is not initialized")
  ELSE
    LET res0 == StarState_deserialize(accountInfo.data) IN
    IF res0.kind = "throw" THEN res0
    ELSE
    LET res == [res0 EXCEPT
                  !.isPresent = TRUE,
                  !.isAuthorized = res0.flags.paid_to_assign /\ res0.flags.paid_to_verify,
                  !.isReadyToAssign = res0.flags.paid_to_assign /\ ~ res0.flags.paid_to_verify]
    IN IF res.versionMajor < StarState_MIN_VERSION
         THEN [res EXCEPT !.invalidReason = "Invalid version"]
       ELSE IF isDefault(res.owner)
         THEN [res EXCEPT !.invalidReason = "Unowned record"]
       ELSE [res EXCEPT !.isAssignedAndValid = TRUE]

StarState_HEADER_LEN == 96

\* The input of the call that produced the value in star.
StarInput == arg[Walker]

\* -------------------------------------------------- getVerifyCostLamports
\* The fee fields of ConfigState that the cost functions read.
ConfigState_new(verifyPhone, verifyEmail, assignPhone, assignEmail, escrowCreate, notifyPhone, notifyEmail) ==
  [kind |-> "config",
   name_verify_phone_lamports |-> verifyPhone,
   name_verify_email_lamports |-> verifyEmail,
   name_assign_phone_lamports |-> assignPhone,
   name_assign_email_lamports |-> assignEmail,
   escrow_create_lamports |-> escrowCreate,
   notify_phone_lamports |-> notifyPhone,
   notify_email_lamports |-> notifyEmail]

\* ConfigState.default(address)
ConfigState_default == ConfigState_new(1000000, 1000000, 0, 0, 0, 1000000, 25000)

\* What getAccountInfo returns for CONFIG_ACCOUNT: nothing, an account of
\* another owner, or an account of the program holding a fee table.
ConfigAccountInfos ==
  {Null}
    \cup {[owner |-> PublicKey("other"), data |-> ConfigState_new(10, 20, 1, 2, 3, 5, 7)]}
    \cup {[owner |-> STARMAP_PROGRAM_ID, data |-> ConfigState_default]}
    \cup {[owner |-> STARMAP_PROGRAM_ID, data |-> ConfigState_new(vp, ve, ap, ae, 3, np, 7)] :
            vp \in {0, 10}, ve \in {0, 20}, ap \in {0, 1}, ae \in {0, 2}, np \in {0, 5}}

\* As ConfigState_retrieve, but the owner of the account is not looked at.
ConfigState_retrieve_anyOwner(accountInfo, programId) ==
  IF accountInfo = Null THEN Null ELSE accountInfo.data

\* ConfigState.retrieve(connection, accountKey, programId), on the account read.
ConfigState_retrieve(accountInfo, programId) ==
  IF accountInfo = Null \/ accountInfo.owner # programId THEN Null ELSE accountInfo.data

\* connection.getMinimumBalanceForRentExemption(size): what the ledger asks
\* for an account of size bytes, growing with the size.
getMinimumBalanceForRentExemption(size) == (size + 128) * 6960

\* The verify and assign fee the record type selects in the fee table.
VerifyFeeLookup(fees, recordType) ==
  IF recordType = RecordType_Phone
    THEN [known |-> TRUE, verify_fee |-> fees.name_verify_phone_lamports,
          assign_fee |-> fees.name_assign_phone_lamports]
  ELSE IF recordType = RecordType_Email
    THEN [known |-> TRUE, verify_fee |-> fees.name_verify_phone_lamports,
          assign_fee |-> fees.name_assign_phone_lamports]
  ELSE [known |-> FALSE, verify_fee |-> 0, assign_fee |-> 0]

CostInfo(fee, deposit) == [kind |-> "cost", fee |-> fee, deposit |-> deposit]

\* As getVerifyCostLamports, but each flag zeroes the other component.
getVerifyCostLamports_crossed(dataSize, state, dynamicFees) ==
  LET totalSize == StarState_HEADER_LEN + dataSize
      rent == getMinimumBalanceForRentExemption(totalSize)
      fees == IF dynamicFees = Null THEN ConfigState_default ELSE dynamicFees
      looked == VerifyFeeLookup(fees, state.recordType)
      assign_fee == IF state.flags.paid_to_verify THEN 0 ELSE looked.assign_fee
      verify_fee == IF state.flags.paid_to_assign THEN 0 ELSE looked.verify_fee
  IN IF ~ looked.known THEN CostInfo(0, 0)
     ELSE CostInfo(assign_fee + verify_fee, rent)

\* getVerifyCostLamports(connection, dataSize, state), on the config account read.
getVerifyCostLamports(dataSize, state, dynamicFees) ==
  LET totalSize == StarState_HEADER_LEN + dataSize
      rent == getMinimumBalanceForRentExemption(totalSize)
      fees == IF dynamicFees = Null THEN ConfigState_default ELSE dynamicFees
      looked == VerifyFeeLookup(fees, state.recordType)
      assign_fee == IF state.flags.paid_to_assign THEN 0 ELSE looked.assign_fee
      verify_fee == IF state.flags.paid_to_verify THEN 0 ELSE looked.verify_fee
  IN IF ~ looked.known THEN CostInfo(0, 0)
     ELSE CostInfo(assign_fee + verify_fee, rent)

NotificationRequest_LEN == 138

\* getEscrowCostLamports(connection), on the config account read.
getEscrowCostLamports(dynamicFees) ==
  LET halfRent == getMinimumBalanceForRentExemption(165)
      fees == IF dynamicFees = Null THEN ConfigState_default ELSE dynamicFees
      escrow_fee == fees.escrow_create_lamports
  IN CostInfo(escrow_fee, 2 * halfRent)

\* getNotifyCostLamports(connection, recordType), on the config account read.
getNotifyCostLamports(recordType, dynamicFees) ==
  LET rent == getMinimumBalanceForRentExemption(NotificationRequest_LEN)
      fees == IF dynamicFees = Null THEN ConfigState_default ELSE dynamicFees
  IN IF recordType = RecordType_Phone THEN CostInfo(fees.notify_phone_lamports, rent)
     ELSE IF recordType = RecordType_Email THEN CostInfo(fees.notify_email_lamports, rent)
     ELSE CostInfo(0, 0)

BuildDelete == Quiet /\ corruptions = 0 /\ WriterDelete

\* Walks over a ledger that does not change between their reads; the ledger
\* is any chain the program can build, possibly made inconsistent afterwards.
Next ==
  \/ (Quiet /\ corruptions = 0 /\ WriterInsert(Senders))
  \/ BuildDelete
  \/ Quiet /\ CorruptRemove
  \/ Quiet /\ CorruptOwner
  \/ Quiet /\ CorruptLink
  \/ Quiet /\ CorruptIndex
  \/ getEscrowAccounts_root(Walker)
  \/ getEscrowAccounts_loop(Walker)
  \/ getNextAvailableEscrowAccount_root(Walker)
  \/ getNextAvailableEscrowAccount_loop(Walker)
  \/ Return(Walker)

Spec == Init /\ [][Next]_vars

\* Walks racing another writer: its valid inserts and deletes are applied
\* between the reads of a walk; the ledger is never made inconsistent.
NextRace ==
  \/ WriterInsert({SenderOf("c2")})
  \/ WriterDelete
  \/ getEscrowAccounts_root(Walker)
  \/ getEscrowAccounts_loop(Walker)
  \/ getNextAvailableEscrowAccount_root(Walker)
  \/ getNextAvailableEscrowAccount_loop(Walker)
  \/ Return(Walker)

SpecRace == Init /\ [][NextRace]_vars

\* Two callers that each discover a slot, build the instruction and submit
\* it; nothing but their accepted inserts changes the ledger.
NextInsert ==
  \E c \in Callers :
    \/ getNextAvailableEscrowAccount_root(c)
    \/ getNextAvailableEscrowAccount_loop(c)
    \/ createEscrowAccount_slot(c)
    \/ SubmitCreate(c)
    \/ Return(c)

SpecInsert == Init /\ [][NextInsert]_vars

\* One caller after the other on a ledger that starts empty: inserts that
\* apply the slot getNextAvailableEscrowAccount returned, valid deletes, and
\* walks in between.
NextChurn ==
  \/ getNextAvailableEscrowAccount_root(Walker)
  \/ getNextAvailableEscrowAccount_loop(Walker)
  \/ createEscrowAccount_slot(Walker)
  \/ (Len(applied) < MaxApplied /\ SubmitCreate(Walker))
  \/ BuildDelete
  \/ getEscrowAccounts_root(Walker)
  \/ getEscrowAccounts_loop(Walker)
  \/ Return(Walker)

SpecChurn == Init /\ [][NextChurn]_vars

\* The builders called on every EscrowState.
NextBuild ==
  \* A call of createEscrowAccount on any EscrowState.
  \/ /\ pc[Walker] = "idle"
     /\ \E escrow \in EscrowInputs, name \in Names :
          Built(Walker, "create", escrow, createEscrowAccount(name, SenderOf(Walker), escrow))
  \* A call of deleteEscrowAccount on any EscrowState.
  \/ /\ pc[Walker] = "idle"
     /\ \E escrow \in EscrowInputs, name \in Names :
          Built(Walker, "delete", escrow, deleteEscrowAccount(name, SenderOf(Walker), escrow))
  \/ Return(Walker)

SpecBuild == Init /\ [][NextBuild]_vars

\* getHashedName called on every name.
NextHash ==
  \* A call of getHashedName on any name.
  \/ /\ pc[Walker] = "idle"
     /\ \E name \in ({ ([length |-> a + b + c + 2 * d,
                     utf8 |-> a + 2 * b + 3 * c + 4 * d,
                     chars |-> <<a, b, c, d>>]) :
                      a \in {0, 1, 127, MAX_NAME_LENGTH - 1, MAX_NAME_LENGTH, MAX_NAME_LENGTH + 1},
                      b \in {0, 1, 127, 128},
                      c \in {0, 1, 85, 86},
                      d \in {0, 1, 64} }) : Built(Walker, "hash", name, getHashedName(name))
  \/ Return(Walker)

SpecHash == Init /\ [][NextHash]_vars

\* Numberu32.toBuffer on every number and Numberu32.fromBuffer on its result.
NextNum ==
  \* new Numberu32(value).toBuffer() on any number.
  \/ /\ pc[Walker] = "idle"
     /\ \E value \in ({ Num(hi, lo) :
                      hi \in {0, 1, 255, 256, 32768, 65534, 65535, 65536, 65537, 16777216},
                      lo \in {0, 1, 255, 256, 257, 32768, 65280, 65534, 65535} }) :
          LET b == Numberu32_toBuffer(value) IN
          Built(Walker, "toBuffer", value,
                Outcome(IF DOMAIN b = DOMAIN Thrown("") THEN b ELSE [kind |-> "buffer", bytes |-> b]))
  \* Numberu32.fromBuffer on the buffer toBuffer returned.
  \/ /\ pc[Walker] = "done"
     /\ op[Walker] = "toBuffer"
     /\ LET n == Numberu32_fromBuffer(result[Walker].bytes) IN
          Built(Walker, "fromBuffer", arg[Walker],
                Outcome(IF "kind" \in DOMAIN n THEN n
                        ELSE [kind |-> "number", value |-> n, from |-> result[Walker].bytes]))
  \/ Return(Walker)

SpecNum == Init /\ [][NextNum]_vars

\* The instruction builders and deleteNameRegistry called on every input.
NextIx ==
  \* authorizeNameInstruction
  \/ /\ pc[Walker] = "idle"
     /\ \E recordType \in IxRecordTypes, dataSize \in ({NumOf(0), NumOf(96), U32_MAX_Num, Num(65536, 0)}) :
          Built(Walker, "authorizeName", [recordType |-> recordType, dataSize |-> dataSize],
                IxOutcome(authorizeNameInstruction(IxKey(1), getNameAccountKey, HashedName,
                                                   recordType, dataSize)))
  \* setClaimKeyInstruction
  \/ /\ pc[Walker] = "idle"
     /\ \E claimKey \in IxKeys :
          Built(Walker, "setClaimKey", [claimKey |-> claimKey],
                IxOutcome(setClaimKeyInstruction(getNameAccountKey, IxKey(1), claimKey)))
  \* assignNameInstruction
  \/ /\ pc[Walker] = "idle"
     /\ \E ownerKey \in IxKeys :
          Built(Walker, "assignName", [ownerKey |-> ownerKey],
                IxOutcome(assignNameInstruction(getNameAccountKey, IxKey(1), ownerKey)))
  \* transferNameInstruction
  \/ /\ pc[Walker] = "idle"
     /\ \E newOwnerKey \in IxKeys :
          Built(Walker, "transferName", [newOwnerKey |-> newOwnerKey],
                IxOutcome(transferNameInstruction(getNameAccountKey, IxKey(1), newOwnerKey)))
  \* updateNameInstruction
  \/ /\ pc[Walker] = "idle"
     /\ \E offset \in ({NumOf(0), NumOf(300), U32_MAX_Num}), newData \in IxData :
          Built(Walker, "updateName", [offset |-> offset, newData |-> newData],
                IxOutcome(updateNameInstruction(getNameAccountKey, IxKey(1), offset, newData)))
  \* deleteNameInstruction
  \/ /\ pc[Walker] = "idle"
     /\ \E refundTargetKey \in IxKeys, nameOwnerKey \in IxKeys :
          Built(Walker, "deleteName", [refundTargetKey |-> refundTargetKey, nameOwnerKey |-> nameOwnerKey],
                IxOutcome(deleteNameInstruction(getNameAccountKey, refundTargetKey, nameOwnerKey)))
  \* createEscrowInstruction
  \/ /\ pc[Walker] = "idle"
     /\ \E recordType \in IxRecordTypes,
           t \in {t \in (0..U32_MAX) \X (0..U32_MAX) \X (0..U32_MAX) : t[1] < t[2] /\ t[2] < t[3]} :
          Built(Walker, "createEscrow", [recordType |-> recordType, triple |-> t],
                IxOutcome(createEscrowInstruction(
                            IxKey(1), getNameAccountKey, getEscrowAccountKey(t[1]),
                            getEscrowAccountKey(t[2]), getEscrowAccountKey(t[3]),
                            HashedName, recordType, t[1], t[2], t[3], IxKey(9))))
  \* withdrawEscrowInstruction
  \/ /\ pc[Walker] = "idle"
     /\ \E recordType \in IxRecordTypes, idx \in 1..MaxIndex,
           amount \in {NumOf(0), NumOf(1000000), Num(2147483647, 65535)} :
          Built(Walker, "withdrawEscrow", [recordType |-> recordType, index |-> idx, amount |-> amount],
                IxOutcome(withdrawEscrowInstruction(
                            IxKey(1), getNameAccountKey, getEscrowAccountKey(idx),
                            IxKey(2), IxKey(1), HashedName, recordType, idx, amount)))
  \* deleteEscrowInstruction
  \/ /\ pc[Walker] = "idle"
     /\ \E recordType \in IxRecordTypes,
           t \in {t \in (0..U32_MAX) \X (0..U32_MAX) \X (0..U32_MAX) : t[1] < t[2] /\ t[2] < t[3]} :
          Built(Walker, "deleteEscrow", [recordType |-> recordType, triple |-> t],
                IxOutcome(deleteEscrowInstruction(
                            IxKey(1), IxKey(2), getNameAccountKey, getEscrowAccountKey(t[1]),
                            getEscrowAccountKey(t[2]), getEscrowAccountKey(t[3]),
                            HashedName, recordType, t[1], t[2], t[3])))
  \* updateConfigInstruction
  \/ /\ pc[Walker] = "idle"
     /\ \E configType \in {ConfigType_Invalid, ConfigType_General},
           offset \in {NumOf(0), NumOf(300), U32_MAX_Num}, newData \in IxData :
          Built(Walker, "updateConfig", [configType |-> configType, offset |-> offset, newData |-> newData],
                IxOutcome(updateConfigInstruction(IxKey(2), IxKey(1), configType, offset, newData)))
  \* deleteNameRegistry
  \/ /\ pc[Walker] = "idle"
     /\ \E name \in Names, owner \in IxKeys, refundTargetKey \in IxKeys \cup {Undefined} :
          Built(Walker, "deleteNameRegistry", [owner |-> owner, refundTargetKey |-> refundTargetKey],
                deleteNameRegistry(name, owner, refundTargetKey))
  \/ Return(Walker)

SpecIx == Init /\ [][NextIx]_vars

\* parseName called on every string.
NextParse ==
  \* A call of parseName on any string.
  \/ /\ pc[Walker] = "idle"
     \* A string, by what the code asks of it: validator.isEmail(input),
     \* input.length, whether input.toLowerCase().trim() ends with '.sol', and
     \* what parsePhoneNumberWithError and isValid come to: a valid number, a
     \* number that is not valid, a thrown ParseError, a thrown error of another class.
     /\ \E isEmail \in BOOLEAN, length \in {0, 3, 4, 5, 20}, endsWithSol \in BOOLEAN,
           phone \in {[kind |-> "valid"], [kind |-> "invalid"], [kind |-> "other error"]}
                       \cup {ParseError(m) :
                               m \in {"NOT_A_NUMBER", "INVALID_COUNTRY", "TOO_SHORT", "TOO_LONG"}} :
          LET input == [isEmail |-> isEmail, length |-> length, endsWithSol |-> endsWithSol,
                        phone |-> phone]
          IN /\ endsWithSol => length >= 4
             /\ Built(Walker, "parseName", input,
                      [pc |-> "done", err |-> "", calls |-> <<>>, result |-> parseName(input)])
  \/ Return(Walker)

SpecParse == Init /\ [][NextParse]_vars

\* The four address derivations called on every input.
NextKey ==
  \* getNameAccountKey
  \/ /\ pc[Walker] = "idle"
     /\ \E in \in NameKeyInputs :
          Built(Walker, "derive", in,
                findProgramAddress(getNameAccountKey_seeds(in.hashedName, in.recordType)))
  \* getEscrowAccountKey
  \/ /\ pc[Walker] = "idle"
     /\ \E in \in EscrowKeyInputs :
          Built(Walker, "derive", in,
                findProgramAddress(getEscrowAccountKey_seeds(in.hashedName, in.recordType, in.index)))
  \* getConfigAccountKey
  \/ /\ pc[Walker] = "idle"
     /\ \E in \in ConfigKeyInputs :
          Built(Walker, "derive", in, findProgramAddress(getConfigAccountKey_seeds(in.recordType)))
  \* getNotificationAccountKey
  \/ /\ pc[Walker] = "idle"
     /\ \E in \in NotificationKeyInputs :
          Built(Walker, "derive", in,
                findProgramAddress(getNotificationAccountKey_seeds(in.recordType, in.transactionId)))
  \/ Return(Walker)

SpecKey == Init /\ [][NextKey]_vars

\* The cost functions called on every input.
NextCost ==
  \* A call of getVerifyCostLamports on any record, size and config account.
  \/ /\ pc[Walker] = "idle"
     /\ \E d \in {0, 1, 32}, t \in RecordTypes, s \in 0..31, a \in ConfigAccountInfos :
          LET in == [dataSize |-> d,
                     state |-> StarState_new([versionMajor |-> StarState_MIN_VERSION,
                                              recordType |-> t, state |-> s,
                                              owner |-> PublicKey("k1")]),
                     account |-> a,
                     config |-> ConfigState_retrieve(a, STARMAP_PROGRAM_ID)]
          IN
          Built(Walker, "verifyCost", in,
                [pc |-> "done", err |-> "", calls |-> <<>>,
                 result |-> getVerifyCostLamports(in.dataSize, in.state,
                              ConfigState_retrieve(in.account, STARMAP_PROGRAM_ID))])
  \* A call of getEscrowCostLamports on any config account.
  \/ /\ pc[Walker] = "idle"
     /\ \E in \in {[account |-> a] : a \in ConfigAccountInfos} :
          Built(Walker, "escrowCost", in,
                [pc |-> "done", err |-> "", calls |-> <<>>,
                 result |-> getEscrowCostLamports(
                              ConfigState_retrieve(in.account, STARMAP_PROGRAM_ID))])
  \* A call of getNotifyCostLamports on any record type and config account.
  \/ /\ pc[Walker] = "idle"
     /\ \E in \in {[recordType |-> t, account |-> a] : t \in RecordTypes, a \in ConfigAccountInfos} :
          Built(Walker, "notifyCost", in,
                [pc |-> "done", err |-> "", calls |-> <<>>,
                 result |-> getNotifyCostLamports(in.recordType,
                              ConfigState_retrieve(in.account, STARMAP_PROGRAM_ID))])
  \/ Return(Walker)

SpecCost == Init /\ [][NextCost]_vars

\* StarState.retrieve on every stored Name Record.
NextStar ==
  \* StarState_retrieve
  \/ /\ star.kind = "pending"
     /\ star' = StarState_retrieve(star.accountInfo, STARMAP_PROGRAM_ID)
     /\ arg' = [arg EXCEPT ![Walker] = star]
     /\ UNCHANGED <<ledgerVars, pc, op, filter, index, accounts, fetched, calls, result, err, raceVars>>
  \* StarState_create
  \/ /\ star.kind = "pending_create"
     /\ star' = StarState_create(star.recordType, star.owner)
     /\ arg' = [arg EXCEPT ![Walker] = star]
     /\ UNCHANGED <<ledgerVars, pc, op, filter, index, accounts, fetched, calls, result, err, raceVars>>
  \* StarState_empty
  \/ /\ star.kind = "pending_empty"
     /\ star' = StarState_empty(star.invalidReason)
     /\ arg' = [arg EXCEPT ![Walker] = star]
     /\ UNCHANGED <<ledgerVars, pc, op, filter, index, accounts, fetched, calls, result, err, raceVars>>

InitStar ==
  LET \* The owners StarState.create is called with.
      CreateOwners == {PublicKey_default, RUST_DEFAULT_PUBLIC_KEY, PublicKey("k1")}
      \* The data of a stored Name Record: its length and the fields of its header.
      NameRecordData ==
        [length : {StarState_HEADER_LEN},
         versionMajor : 0..MaxVersion,
         recordType : {RecordType_Phone},
         state : 0..U16_MAX,
         owner : {PublicKey("zero"), PublicKey("k1")}]
      \* Data of other lengths, shorter than the header and shorter than the schema.
      ShortRecordData ==
        [length : {0, 1, StarState_SCHEMA_LEN - 1, StarState_SCHEMA_LEN, StarState_HEADER_LEN - 1},
         versionMajor : 0..MaxVersion,
         recordType : {RecordType_Phone},
         state : {0, 6},
         owner : {PublicKey("zero"), PublicKey("k1")}]
      \* What getAccountInfo yields for the address of a Name Record.
      NameAccountInfos ==
        {Null}
          \cup {[owner |-> PublicKey("other"),
                 data |-> [length |-> StarState_HEADER_LEN, versionMajor |-> 1,
                           recordType |-> RecordType_Phone, state |-> 6,
                           owner |-> PublicKey("k1")]]}
          \cup {[owner |-> STARMAP_PROGRAM_ID, data |-> d] : d \in NameRecordData}
          \cup {[owner |-> STARMAP_PROGRAM_ID, data |-> d] : d \in ShortRecordData}
  IN /\ InitEscrow
     /\ star \in {[kind |-> "pending", accountInfo |-> a] : a \in NameAccountInfos}
                   \cup {[kind |-> "pending_create", recordType |-> t, owner |-> o] :
                           t \in RecordTypes, o \in CreateOwners}
                   \cup {[kind |-> "pending_empty", invalidReason |-> r] :
                           r \in {"Uninitialized", "Record account does not exist"}}

SpecStar == InitStar /\ [][NextStar]_vars

\* ------------------------------------------------------ chain invariants
\* The index next_index of the account at address k points at, if any.
Succ(l, k) ==
  IF k \in DOMAIN l /\ l[k].kind \in {"root", "node"} /\ l[k].next_index < U32_MAX
    THEN {l[k].next_index}
    ELSE {}

RECURSIVE Closure(_, _, _)
\* T with everything that next_index links lead to from it, in at most n rounds.
Closure(l, T, n) ==
  LET T2 == T \cup UNION {Succ(l, k) : k \in T} IN
  IF n = 0 \/ T2 = T THEN T ELSE Closure(l, T2, n - 1)

\* The indices linked from the account at address k, directly or not.
After(l, k) == Closure(l, Succ(l, k), MaxIndex + 2)

\* The indices linked from the root.
Reach(l) == After(l, 0)

\* I1: prev_index < index < next_index in every existing node.
I1(l) ==
  \A k \in 1..MaxIndex :
    l[k].kind = "node" =>
      l[k].prev_index < l[k].index /\ l[k].index < l[k].next_index

\* I2: indices strictly increase along next_index from the root.
I2(l) ==
  \A k \in {0} \cup Reach(l) :
    (k \in DOMAIN l /\ l[k].kind \in {"root", "node"}) =>
      \A n \in Succ(l, k) :
        (n \in DOMAIN l /\ l[n].kind \in {"root", "node"}) =>
          (IF l[n].kind = "node" THEN l[n].index ELSE 0) > (IF l[k].kind = "node" THEN l[k].index ELSE 0)

\* I3: no cycle and no index twice along the chain.
I3(l) ==
  /\ \A k \in {0} \cup Reach(l) : k \notin After(l, k)
  /\ \A j, k \in Reach(l) :
       (j # k /\ j \in 1..MaxIndex /\ k \in 1..MaxIndex
          /\ l[j].kind = "node" /\ l[k].kind = "node") => l[j].index # l[k].index

WellFormed(l) == I1(l) /\ I2(l) /\ I3(l) /\ (\A k \in Reach(l) : k \in 1..MaxIndex /\ l[k].kind = "node")

Last(seq) == seq[Len(seq)]

Triple(e) == <<e.prev_index, e.index, e.next_index>>

\* --------------------------------------------------------------- claims
\* C1: getNextAvailableEscrowAccount returns index 1 with prev_index 0 when no
\* node can sit at index 1: with the root absent or not owned by the program
\* next_index is U32_MAX, with root.next_index > 1 it is root.next_index; in
\* both cases no escrow node is fetched.
C1_SlotAfterRoot ==
  \A c \in Callers :
    (op[c] = "next" /\ pc[c] # "idle") =>
      LET rootState == getEscrowRootAccount(ledger) IN
      /\ rootState = Null =>
           /\ pc[c] = "done"
           /\ Triple(result[c]) = <<0, 1, U32_MAX>>
           /\ result[c].address = getEscrowAccountKey(1)
           /\ fetched[c] = <<>>
      /\ (rootState # Null /\ rootState.next_index > 1) =>
           /\ pc[c] = "done"
           /\ Triple(result[c]) = <<0, 1, rootState.next_index>>
           /\ result[c].address = getEscrowAccountKey(1)
           /\ fetched[c] = <<>>

\* The root points past 1 at an existing node and the slot before it is returned.
C1_witness ==
  \E c \in Callers :
    /\ op[c] = "next" /\ pc[c] = "done"
    /\ ledger[0].kind = "root"
    /\ ledger[0].next_index > 1 /\ ledger[0].next_index < U32_MAX
    /\ Triple(result[c]) = <<0, 1, ledger[0].next_index>>

\* C2: with the root present and next_index <= 1 the walk reads the nodes at
\* 1, 2, 3, ... in order and returns at the first candidate c = k + 1 for
\* which the node read at k has next_index > c, with prev_index that node's
\* index field and next_index its next_index; a chain of node 1 alone gives
\* {prev 1, curr 2, next U32_MAX}.
C2_FirstGap ==
  \A c \in Callers :
    LET rootState == getEscrowRootAccount(ledger)
        k == Len(fetched[c])
    IN (op[c] = "next" /\ pc[c] = "done" /\ rootState # Null
          /\ rootState.next_index <= 1) =>
         /\ k >= 1
         /\ fetched[c] = [i \in 1..k |-> i]
         /\ \A j \in 1..(k - 1) :
              getEscrowAccount(ledger, j).kind = "escrow" /\ getEscrowAccount(ledger, j).next_index <= j + 1
         /\ getEscrowAccount(ledger, k).kind = "escrow"
         /\ getEscrowAccount(ledger, k).next_index > k + 1
         /\ Triple(result[c]) =
              <<getEscrowAccount(ledger, k).index, k + 1, getEscrowAccount(ledger, k).next_index>>
         /\ result[c].address = getEscrowAccountKey(k + 1)
         /\ (ledger[1].kind = "node" /\ ledger[1].index = 1
               /\ ledger[1].next_index = U32_MAX) =>
              Triple(result[c]) = <<1, 2, U32_MAX>>

\* The walk read more than one node before it found the gap.
C2_witness ==
  \E c \in Callers :
    /\ op[c] = "next" /\ pc[c] = "done"
    /\ Len(fetched[c]) >= 2
    /\ result[c].index = Len(fetched[c]) + 1

\* C3: in both walks a node the walk needs to read that is missing from the
\* ledger, or not owned by the program, ends the call with the error 'Null
\* pointer in escrow chain'; no list, partial list or slot is returned.
C3_MissingNodeIsError ==
  \A c \in Callers :
    (op[c] \in {"list", "next"} /\ Len(fetched[c]) > 0
       /\ getEscrowAccount(ledger, Last(fetched[c])) = Null) =>
      /\ pc[c] = "error"
      /\ err[c] = NullPointerError
      /\ result[c] = None

\* getEscrowAccounts met a missing node after it had read an existing one.
C3_witness ==
  \E c \in Callers :
    /\ op[c] = "list" /\ pc[c] = "error" /\ err[c] = NullPointerError
    /\ Len(fetched[c]) >= 2
    /\ Len(accounts[c]) >= 1
    /\ getEscrowAccount(ledger, Last(fetched[c])) = Null

\* C4: on a ledger whose chain satisfies I1-I3 (every linked index present),
\* getEscrowAccounts without a sender filter returns every node linked from
\* the root exactly once, in strictly ascending index order, and nothing
\* else; with the root absent it returns the empty sequence and fetches no node.
C4_ListIsChain ==
  \A c \in Callers :
    (op[c] = "list" /\ filter[c] = NoFilter /\ pc[c] \in {"done", "error"}
       /\ WellFormed(ledger)) =>
      /\ pc[c] = "done"
      /\ LET accs == result[c].accounts IN
           /\ Len(accs) = Cardinality(Reach(ledger))
           /\ {accs[i].address.index : i \in 1..Len(accs)} = Reach(ledger)
           /\ \A i \in 1..Len(accs) : accs[i] = getEscrowAccount(ledger, accs[i].address.index)
           /\ \A i \in 1..(Len(accs) - 1) : accs[i].index < accs[i + 1].index
           /\ getEscrowRootAccount(ledger) = Null =>
                (accs = <<>> /\ fetched[c] = <<>>)

\* A chain with a gap in its indices was listed: two nodes, not adjacent.
C4_witness ==
  \E c \in Callers :
    /\ op[c] = "list" /\ filter[c] = NoFilter /\ pc[c] = "done"
    /\ WellFormed(ledger)
    /\ Len(result[c].accounts) = 2
    /\ result[c].accounts[2].index > result[c].accounts[1].index + 1

\* C5: createEscrowAccount and deleteEscrowAccount raise the invalid-triple
\* error exactly when index < 1 or prev_index > index or next_index < index;
\* on rejection no instruction is returned and neither the hash of the
\* identifier nor any address derivation is performed.
C5_TripleValidation ==
  \A c \in Callers :
    (op[c] \in {"create", "delete"} /\ pc[c] \in {"built", "error"}) =>
      LET e == arg[c] IN
      /\ (err[c] = InvalidIndexError) <=>
           (e.index < 1 \/ e.prev_index > e.index \/ e.next_index < e.index)
      /\ err[c] = InvalidIndexError =>
           (pc[c] = "error" /\ result[c] = None /\ calls[c] = <<>>)
      /\ pc[c] = "built" => (result[c].kind = "ix" /\ Len(calls[c]) = 5)

\* A triple with prev_index above index, such as {prev 2, curr 1}, was rejected.
C5_witness ==
  \E c \in Callers :
    /\ op[c] = "create" /\ pc[c] = "error" /\ err[c] = InvalidIndexError
    /\ arg[c].prev_index = 2 /\ arg[c].index = 1 /\ arg[c].next_index > 2

\* C6 as claimed: while every ledger state satisfies I1-I3 with every linked
\* index present, neither walk raises the corrupted-chain error, whatever
\* valid inserts and deletes another writer applies between its reads.
C6_NoErrorOnConsistentLedger ==
  \A c \in Callers : err[c] # NullPointerError

\* C6 as amended: every ledger state satisfies I1-I3 with every linked index
\* present, and a walk raises the corrupted-chain error only if a delete was
\* applied between its reads or, for getNextAvailableEscrowAccount, if the
\* chain occupies every index from 1 to U32_MAX - 1; valid inserts between
\* the reads never make a walk raise it.
C6_ErrorOnlyAfterDelete ==
  /\ WellFormed(ledger)
  /\ \A c \in Callers :
       err[c] = NullPointerError =>
         \/ deleted[c]
         \/ op[c] = "next" /\ (\A k \in 1..MaxIndex : ledger[k].kind = "node")

\* A walk read nodes, an insert was applied between its reads, no delete was,
\* and it returned.
C6_witness ==
  \E c \in Callers :
    /\ pc[c] = "done" /\ inserted[c] /\ ~ deleted[c]
    /\ Len(fetched[c]) >= 2

\* C7 as claimed: on a ledger that stands still getEscrowAccounts ends, with a
\* corrupted-chain error when the links from the root do not strictly
\* increase; it never goes on to fetch an index it has fetched before.
C7_ListNeverRefetches ==
  \A c \in Callers :
    op[c] = "list" =>
      \A i, j \in 1..Len(fetched[c]) : i # j => fetched[c][i] # fetched[c][j]

\* A caller holds a slot or the instruction built from it.
HasSlot(c) ==
  \/ op[c] = "next" /\ pc[c] = "done"
  \/ op[c] = "create" /\ pc[c] = "built"

\* The triple of the slot a caller discovered.
SlotTriple(c) ==
  IF pc[c] = "built"
    THEN <<result[c].prevIndex, result[c].currIndex, result[c].nextIndex>>
    ELSE Triple(result[c])

\* C8: no lock is taken between discovery and submission: two callers that
\* ran getNextAvailableEscrowAccount against the same ledger state hold the
\* same triple; under the program's atomic check of the triple at submission
\* no triple is applied twice and the chain satisfies I1-I3 after every
\* interleaving of the two callers.
C8_OneInsertPerTriple ==
  /\ \A c, d \in Callers :
       (HasSlot(c) /\ HasSlot(d) /\ ~ inserted[c] /\ ~ inserted[d]) =>
         SlotTriple(c) = SlotTriple(d)
  /\ \A i, j \in 1..Len(applied) : i # j => applied[i] # applied[j]
  /\ WellFormed(ledger)

\* Two callers discovered the same triple; the insert of one has been applied
\* and the other caller still holds the instruction built for that triple.
C8_witness ==
  \E c \in Callers :
    /\ op[c] = "create" /\ pc[c] = "built"
    /\ inserted[c]
    /\ \E i \in 1..Len(applied) : applied[i] = SlotTriple(c)

\* C9 as claimed: every instruction createEscrowAccount / deleteEscrowAccount
\* emit carries a triple with prev_index < index < next_index.
C9_EmittedTripleIsStrict ==
  \A c \in Callers :
    (op[c] \in {"create", "delete"} /\ pc[c] = "built") =>
      /\ result[c].prevIndex < result[c].currIndex
      /\ result[c].currIndex < result[c].nextIndex

Bit(b) == IF b THEN 1 ELSE 0

\* C10: for every u16 state of a retrieved Name Record the flags are bits
\* 0..4 of state (locked, paid_to_verify, paid_to_assign, contested,
\* disable_notifications), isAuthorized = paid_to_verify and paid_to_assign,
\* isReadyToAssign = paid_to_assign and not paid_to_verify; state 0 gives
\* both false, bits 1 and 2 set give isAuthorized, and never both hold.
C10_FlagsOfState ==
  star.kind = "star" =>
    /\ star.isPresent =>
         /\ star.state % 32 =
              Bit(star.flags.locked) + 2 * Bit(star.flags.paid_to_verify)
                + 4 * Bit(star.flags.paid_to_assign) + 8 * Bit(star.flags.contested)
                + 16 * Bit(star.flags.disable_notifications)
         /\ star.isAuthorized <=>
              (star.flags.paid_to_verify /\ star.flags.paid_to_assign)
         /\ star.isReadyToAssign <=>
              (star.flags.paid_to_assign /\ ~ star.flags.paid_to_verify)
         /\ ((star.state \div 2) % 2 = 1 /\ (star.state \div 4) % 2 = 1) =>
              star.isAuthorized
         /\ ((star.state \div 4) % 2 = 1 /\ (star.state \div 2) % 2 = 0) =>
              star.isReadyToAssign
    /\ star.state = 0 => (~ star.isAuthorized /\ ~ star.isReadyToAssign)
    /\ ~ (star.isAuthorized /\ star.isReadyToAssign)

\* A record with bit 2 set and bit 1 clear among other bits, above bit 4 too,
\* was retrieved as ready to assign.
C10_witness ==
  /\ star.kind = "star" /\ star.isPresent
  /\ star.state > 255
  /\ star.isReadyToAssign /\ ~ star.isAuthorized
  /\ star.flags.locked /\ star.flags.disable_notifications

\* ------------------------------------------------ claims on StarState
\* The value in star was returned by StarState.retrieve.
Retrieved == StarInput.kind = "pending"

\* The account that call of StarState.retrieve read.
RetrievedInfo == StarInput.accountInfo

\* A present account of the program whose data holds every field of the schema.
DecodableRecord(a) ==
  /\ a # Null
  /\ a.owner = STARMAP_PROGRAM_ID
  /\ a.data.length >= StarState_SCHEMA_LEN

\* C11 as claimed: in every StarState that StarState.retrieve, StarState.empty
\* or StarState.create returns, isAssignedAndValid is true if and only if
\* versionMajor >= MIN_VERSION and owner is not a zero address.
C11_ValidIffVersionAndOwner ==
  star.kind = "star" =>
    (star.isAssignedAndValid <=>
       (star.versionMajor >= StarState_MIN_VERSION
          /\ star.owner # PublicKey_default /\ star.owner # RUST_DEFAULT_PUBLIC_KEY))

\* C12: StarState.retrieve of a present record of the program with
\* versionMajor >= MIN_VERSION whose owner is PublicKey.default or
\* RUST_DEFAULT_PUBLIC_KEY returns isAssignedAndValid = false with
\* invalidReason 'Unowned record', the same for both zero addresses.
C12_UnownedRecord ==
  LET a == RetrievedInfo IN
    (Retrieved /\ DecodableRecord(a)
       /\ a.data.versionMajor >= StarState_MIN_VERSION
       /\ a.data.owner \in {PublicKey_default, RUST_DEFAULT_PUBLIC_KEY}) =>
      /\ star.kind = "star"
      /\ ~ star.isAssignedAndValid
      /\ star.invalidReason = "Unowned record"

\* A current-version record whose payment flags are set but whose owner is a
\* zero address was retrieved as unowned.
C12_witness ==
  /\ StarInput.kind = "pending"
  /\ DecodableRecord(StarInput.accountInfo)
  /\ StarInput.accountInfo.data.versionMajor >= StarState_MIN_VERSION
  /\ StarInput.accountInfo.data.owner = RUST_DEFAULT_PUBLIC_KEY
  /\ star.kind = "star" /\ star.isAuthorized
  /\ star.invalidReason = "Unowned record"

\* C13: StarState.retrieve returns the decode-state failures as values: an
\* absent account and an account of another owner each give a StarState with
\* isPresent, isAuthorized, isReadyToAssign and isAssignedAndValid false and
\* a reason of its own; a version below MIN_VERSION and an unowned record give
\* isAssignedAndValid = false, each with its own reason again.
C13_FailuresAreValues ==
  LET a == RetrievedInfo IN
    Retrieved =>
      LET allFalse == /\ star.kind = "star"
                      /\ ~ star.isPresent /\ ~ star.isAuthorized
                      /\ ~ star.isReadyToAssign /\ ~ star.isAssignedAndValid
      IN
      /\ a = Null =>
           (allFalse /\ star.invalidReason = "Record account does not exist")
      /\ (a # Null /\ a.owner # STARMAP_PROGRAM_ID) =>
           (allFalse /\ star.invalidReason = "Record account exists but is not initialized")
      /\ (DecodableRecord(a) /\ a.data.versionMajor < StarState_MIN_VERSION) =>
           /\ star.kind = "star"
           /\ ~ star.isAssignedAndValid
           /\ star.invalidReason = "Invalid version"
      /\ (DecodableRecord(a) /\ a.data.versionMajor >= StarState_MIN_VERSION
             /\ isDefault(a.data.owner)) =>
           /\ star.kind = "star"
           /\ ~ star.isAssignedAndValid
           /\ star.invalidReason = "Unowned record"

\* An account that exists under another owner, with an owned record in its
\* data, was retrieved as not initialized.
C13_witness ==
  /\ StarInput.kind = "pending"
  /\ StarInput.accountInfo # Null
  /\ StarInput.accountInfo.owner # STARMAP_PROGRAM_ID
  /\ star.kind = "star"
  /\ star.invalidReason = "Record account exists but is not initialized"

\* C14 as claimed: StarState.retrieve of an account of the program whose data
\* is shorter than the 96 bytes of the header returns the absent/invalid
\* value (isPresent and isAssignedAndValid false) and raises no exception.
C14_ShortDataIsSentinel ==
  LET a == RetrievedInfo IN
    (Retrieved /\ a # Null /\ a.owner = STARMAP_PROGRAM_ID
       /\ a.data.length < StarState_HEADER_LEN) =>
      /\ star.kind = "star"
      /\ ~ star.isPresent
      /\ ~ star.isAssignedAndValid

\* The nodes of seq that pass the filter f.
FilterBySender(seq, f) ==
  LET Passes(e) == f = NoFilter \/ e.sender = f.key IN SelectSeq(seq, Passes)

\* C15: getEscrowAccounts with a senderFilter returns, in the same order, the
\* nodes of the unfiltered walk whose sender equals the filter: the reads
\* follow next_index from the root whatever the senders are, a node of
\* another sender neither ends nor shortens the walk, a missing node behind
\* it still raises the corrupted-chain error, and without a filter every
\* node read is returned.
C15_FilterIsSubsequence ==
  \A c \in Callers :
    (op[c] = "list" /\ pc[c] # "idle") =>
      LET nodes == (LET n == IF pc[c] = "error" THEN Len(fetched[c]) - 1 ELSE Len(fetched[c])
                    IN [i \in 1..n |-> getEscrowAccount(ledger, fetched[c][i])])
          root == getEscrowRootAccount(ledger)
      IN
      /\ accounts[c] = FilterBySender(nodes, filter[c])
      /\ filter[c] = NoFilter => accounts[c] = nodes
      /\ Len(fetched[c]) > 0 => (root # Null /\ fetched[c][1] = root.next_index)
      /\ \A i \in 1..(Len(fetched[c]) - 1) :
           fetched[c][i + 1] = nodes[i].next_index
      /\ pc[c] = "done" =>
           /\ result[c].accounts = FilterBySender(nodes, filter[c])
           /\ IF Len(nodes) = 0
                THEN root = Null \/ root.next_index >= U32_MAX
                ELSE Last(nodes).next_index >= U32_MAX
      /\ (Len(fetched[c]) > 0 /\ getEscrowAccount(ledger, Last(fetched[c])) = Null) =>
           (pc[c] = "error" /\ err[c] = NullPointerError)

\* A filtered walk passed a node of another sender and returned a later node
\* of the sender asked for.
C15_witness ==
  \E c \in Callers :
    /\ op[c] = "list" /\ pc[c] = "done"
    /\ filter[c] # NoFilter
    /\ Len(fetched[c]) >= 2
    /\ getEscrowAccount(ledger, fetched[c][1]).sender # filter[c].key
    /\ Len(result[c].accounts) >= 1
    /\ Last(result[c].accounts).sender = filter[c].key

\* ------------------------------------------------ claims on getHashedName
\* C16 as claimed: getHashedName raises the name-length error, and returns no
\* digest, exactly when the UTF-8 encoding of the name is longer than 255
\* bytes; every name of at most 255 UTF-8 bytes gets a digest.
C16_LengthInUtf8Bytes ==
  \A c \in Callers :
    op[c] = "hash" =>
      /\ (pc[c] = "error" /\ err[c] = NameLengthError /\ result[c] = None)
           <=> arg[c].utf8 > MAX_NAME_LENGTH
      /\ arg[c].utf8 <= MAX_NAME_LENGTH => (pc[c] = "done" /\ result[c].kind = "digest")

\* ------------------------------------------ claims on address derivation
\* C17 as claimed: a derivation called with RecordType.Invalid (0) aborts:
\* getNameAccountKey, getEscrowAccountKey and getNotificationAccountKey
\* return no address for it.
C17_InvalidRecordTypeAborts ==
  \A c \in Callers :
    (op[c] = "derive" /\ arg[c].fn # "getConfigAccountKey"
       /\ arg[c].recordType = RecordType_Invalid) =>
      (pc[c] = "error" /\ result[c] = None)

\* C18 as claimed: two derivations whose (accountType, recordType,
\* digest, index) inputs differ never build the same seed list, for record
\* types among the enum values and the integers below Bonfida.
C18_SeedsInjective ==
  \A c \in Callers :
    (op[c] = "derive" /\ pc[c] = "done") =>
      /\ \A o \in NameKeyInputs \ {arg[c]} :
           getNameAccountKey_seeds(o.hashedName, o.recordType) # result[c].seeds
      /\ \A o \in EscrowKeyInputs \ {arg[c]} :
           getEscrowAccountKey_seeds(o.hashedName, o.recordType, o.index) # result[c].seeds
      /\ \A o \in ConfigKeyInputs \ {arg[c]} :
           getConfigAccountKey_seeds(o.recordType) # result[c].seeds
      /\ \A o \in NotificationKeyInputs \ {arg[c]} :
           getNotificationAccountKey_seeds(o.recordType, o.transactionId) # result[c].seeds

\* ---------------------------------------- claims on getVerifyCostLamports
\* The fee table a call works with: the config account's, or the default one.
FeesOf(in) == IF in.config = Null THEN ConfigState_default ELSE in.config

\* C19 as claimed: with no pre-paid flag set, the fee of a Phone record is
\* name_verify_phone_lamports + name_assign_phone_lamports and the fee of an
\* Email record is name_verify_email_lamports + name_assign_email_lamports
\* of the (possibly default) fee table; for both the deposit is the minimum
\* balance for HEADER_LEN + dataSize bytes.
C19_FeePerRecordType ==
  \A c \in Callers :
    op[c] = "verifyCost" =>
      LET in == arg[c]
          fees == FeesOf(in)
          unpaid == ~ in.state.flags.paid_to_verify /\ ~ in.state.flags.paid_to_assign
      IN
      /\ (in.state.recordType = RecordType_Phone /\ unpaid) =>
           result[c].fee = fees.name_verify_phone_lamports + fees.name_assign_phone_lamports
      /\ (in.state.recordType = RecordType_Email /\ unpaid) =>
           result[c].fee = fees.name_verify_email_lamports + fees.name_assign_email_lamports
      /\ in.state.recordType \in {RecordType_Phone, RecordType_Email} =>
           result[c].deposit =
             getMinimumBalanceForRentExemption(StarState_HEADER_LEN + in.dataSize)

\* C20: each pre-paid flag zeroes its own fee component, the one the record
\* type selected: paid_to_verify removes the verify fee only, paid_to_assign
\* the assign fee only, both give fee 0, neither gives the sum of the two;
\* the deposit is that of the same call with no flag set.
C20_FlagsZeroOwnComponent ==
  \A c \in Callers :
    op[c] = "verifyCost" =>
      LET in == arg[c]
          looked == VerifyFeeLookup(FeesOf(in), in.state.recordType)
          paidVerify == in.state.flags.paid_to_verify
          paidAssign == in.state.flags.paid_to_assign
          full == getVerifyCostLamports(
                    in.dataSize,
                    StarState_new([versionMajor |-> in.state.versionMajor,
                                   recordType |-> in.state.recordType, state |-> 0,
                                   owner |-> in.state.owner]),
                    in.config)
      IN
      /\ result[c].deposit = full.deposit
      /\ full.fee = looked.verify_fee + looked.assign_fee
      /\ (paidVerify /\ paidAssign) => result[c].fee = 0
      /\ (~ paidVerify /\ ~ paidAssign) => result[c].fee = full.fee
      /\ (paidVerify /\ ~ paidAssign) => result[c].fee = looked.assign_fee
      /\ (~ paidVerify /\ paidAssign) => result[c].fee = looked.verify_fee

\* A record that paid to verify but not to assign, with both fees of its
\* type above zero and different, is charged the assign fee alone.
C20_witness ==
  \E c \in Callers :
    /\ op[c] = "verifyCost" /\ pc[c] = "done"
    /\ arg[c].state.flags.paid_to_verify /\ ~ arg[c].state.flags.paid_to_assign
    /\ arg[c].config # Null
    /\ arg[c].config.name_verify_phone_lamports > arg[c].config.name_assign_phone_lamports
    /\ arg[c].config.name_assign_phone_lamports > 0
    /\ result[c].fee = arg[c].config.name_assign_phone_lamports
    /\ result[c].deposit > 0

\* The config account a cost function read is absent or of another owner.
NoConfig(in) == in.account = Null \/ in.account.owner # STARMAP_PROGRAM_ID

\* C21: with the config account absent or not owned by the program,
\* getVerifyCostLamports, getEscrowCostLamports and getNotifyCostLamports
\* return, without an error, what they return for a present config account
\* holding the default table: verify fees 1000000, assign and escrow fees 0,
\* notify phone 1000000, notify email 25000.
C21_AbsentConfigIsDefault ==
  \A c \in Callers :
    LET in == arg[c]
        present == ConfigState_retrieve([owner |-> STARMAP_PROGRAM_ID, data |-> ConfigState_default],
                                        STARMAP_PROGRAM_ID)
    IN
    /\ (op[c] = "verifyCost" /\ NoConfig(in)) =>
         /\ pc[c] = "done"
         /\ result[c] = getVerifyCostLamports(in.dataSize, in.state, present)
         /\ (in.state.recordType \in {RecordType_Phone, RecordType_Email}
               /\ ~ in.state.flags.paid_to_verify /\ ~ in.state.flags.paid_to_assign) =>
              result[c].fee = 1000000
         /\ (in.state.recordType \in {RecordType_Phone, RecordType_Email}
               /\ in.state.flags.paid_to_verify) =>
              result[c].fee = 0
    /\ (op[c] = "escrowCost" /\ NoConfig(in)) =>
         /\ pc[c] = "done"
         /\ result[c] = getEscrowCostLamports(present)
         /\ result[c].fee = 0
    /\ (op[c] = "notifyCost" /\ NoConfig(in)) =>
         /\ pc[c] = "done"
         /\ result[c] = getNotifyCostLamports(in.recordType, present)
         /\ in.recordType = RecordType_Phone => result[c].fee = 1000000
         /\ in.recordType = RecordType_Email => result[c].fee = 25000

\* The notify cost of an Email record was asked for while the config address
\* held an account of another owner, and the default fee came back.
C21_witness ==
  \E c \in Callers :
    /\ op[c] = "notifyCost" /\ pc[c] = "done"
    /\ arg[c].account # Null
    /\ arg[c].account.owner # STARMAP_PROGRAM_ID
    /\ arg[c].recordType = RecordType_Email
    /\ result[c].fee = 25000
    /\ result[c].deposit > 0

\* ---------------------------------------------------- claims on Numberu32
\* C26: for every integer 0 <= v <= U32_MAX, Numberu32.toBuffer gives
\* exactly four bytes, least significant first, and Numberu32.fromBuffer of
\* them is v again; for every v > U32_MAX toBuffer raises 'Numberu32 too
\* large' and returns nothing.
C26_Numberu32RoundTrip ==
  \A c \in Callers :
    /\ (op[c] = "toBuffer" /\ NumLE(arg[c], U32_MAX_Num)) =>
         /\ pc[c] = "done"
         /\ Len(result[c].bytes) = 4
         /\ \A i \in 1..4 : result[c].bytes[i] \in 0..255
         /\ result[c].bytes[1] + 256 * result[c].bytes[2] = arg[c].lo
         /\ result[c].bytes[3] + 256 * result[c].bytes[4] = arg[c].hi
    /\ (op[c] = "toBuffer" /\ ~ NumLE(arg[c], U32_MAX_Num)) =>
         /\ pc[c] = "error"
         /\ err[c] = "Numberu32 too large"
         /\ result[c] = None
    /\ op[c] = "fromBuffer" =>
         /\ NumLE(arg[c], U32_MAX_Num)
         /\ pc[c] = "done"
         /\ result[c].value = arg[c]

\* U32_MAX itself went through toBuffer and fromBuffer and came back.
C26_witness ==
  \E c \in Callers :
    /\ op[c] = "fromBuffer" /\ pc[c] = "done"
    /\ arg[c] = U32_MAX_Num
    /\ result[c].from = <<255, 255, 255, 255>>
    /\ result[c].value = U32_MAX_Num

\* The builders, by the opcode each is claimed to write (0 first).
IxBuilders ==
  <<"authorizeName", "setClaimKey", "assignName", "transferName", "updateName",
    "deleteName", "createEscrow", "withdrawEscrow", "deleteEscrow", "updateConfig">>

\* An instruction of each builder, on one of its inputs.
IxSample(which) ==
  CASE which = "authorizeName" ->
         authorizeNameInstruction(IxKey(1), getNameAccountKey, HashedName, RecordType_Phone, NumOf(96))
    [] which = "setClaimKey" -> setClaimKeyInstruction(getNameAccountKey, IxKey(1), IxKey(2))
    [] which = "assignName" -> assignNameInstruction(getNameAccountKey, IxKey(1), IxKey(2))
    [] which = "transferName" -> transferNameInstruction(getNameAccountKey, IxKey(1), IxKey(2))
    [] which = "updateName" -> updateNameInstruction(getNameAccountKey, IxKey(1), NumOf(0), <<7>>)
    [] which = "deleteName" -> deleteNameInstruction(getNameAccountKey, IxKey(2), IxKey(1))
    [] which = "createEscrow" ->
         createEscrowInstruction(IxKey(1), getNameAccountKey, getEscrowAccountKey(0),
                                 getEscrowAccountKey(1), getEscrowAccountKey(U32_MAX),
                                 HashedName, RecordType_Phone, 0, 1, U32_MAX, IxKey(9))
    [] which = "withdrawEscrow" ->
         withdrawEscrowInstruction(IxKey(1), getNameAccountKey, getEscrowAccountKey(1),
                                   IxKey(2), IxKey(1), HashedName, RecordType_Phone, 1, NumOf(1))
    [] which = "deleteEscrow" ->
         deleteEscrowInstruction(IxKey(1), IxKey(2), getNameAccountKey, getEscrowAccountKey(0),
                                 getEscrowAccountKey(1), getEscrowAccountKey(U32_MAX),
                                 HashedName, RecordType_Phone, 0, 1, U32_MAX)
    [] which = "updateConfig" ->
         updateConfigInstruction(IxKey(2), IxKey(1), ConfigType_General, NumOf(0), <<7>>)

\* The dataLen field of a payload whose length field starts at byte from.
DataLenAt(data, from) == Numberu32_fromBuffer(SubSeq(data, from, from + 3))

\* C22: the first payload byte of every built instruction is its builder's
\* opcode (authorize 0, setClaimKey 1, assign 2, transfer 3, update 4, delete 5,
\* createEscrow 6, withdrawEscrow 7, deleteEscrow 8, updateConfig 9), no
\* instruction of another builder starts with that byte, and in update and
\* updateConfig payloads dataLen is the length of the data bytes that follow
\* it, which are the data given.
C22_OpcodeAndDataLen ==
  \A c \in Callers :
    \A k \in 1..Len(IxBuilders) :
      (pc[c] = "built" /\ op[c] = IxBuilders[k]) =>
        /\ result[c].data[1] = k - 1
        /\ \A j \in (1..Len(IxBuilders)) \ {k} :
             IxSample(IxBuilders[j]).data[1] # result[c].data[1]
        /\ op[c] = "updateName" =>
             /\ DataLenAt(result[c].data, 6) = NumOf(Len(result[c].data) - 9)
             /\ SubSeq(result[c].data, 10, Len(result[c].data)) = arg[c].newData
        /\ op[c] = "updateConfig" =>
             /\ DataLenAt(result[c].data, 7) = NumOf(Len(result[c].data) - 10)
             /\ SubSeq(result[c].data, 11, Len(result[c].data)) = arg[c].newData

C22_witness ==
  \E c \in Callers :
    /\ pc[c] = "built" /\ op[c] = "updateName" /\ Len(arg[c].newData) = 258
    /\ SubSeq(result[c].data, 6, 9) = <<2, 1, 0, 0>>
    /\ Len(result[c].data) = 267

\* C23: the instruction deleteNameRegistry returns has the owner as its only
\* signer, and its writable refund destination is refundTargetKey if supplied
\* and the owner otherwise.
C23_OwnerSignsRefundToTarget ==
  \A c \in Callers :
    (pc[c] = "built" /\ op[c] = "deleteNameRegistry") =>
      LET keys == result[c].keys IN
      /\ \A i \in 1..Len(keys) : keys[i].isSigner <=> keys[i].pubkey = arg[c].owner
      /\ keys[3].isWritable
      /\ keys[3].pubkey = IF arg[c].refundTargetKey = Undefined THEN arg[c].owner
                          ELSE arg[c].refundTargetKey

\* The k-th (0, 1, 2) index of an escrow instruction's payload, after the
\* opcode, the 32 bytes of the digest and the record type.
PayloadIndex(data, k) == Numberu32_fromBuffer(SubSeq(data, 35 + 4 * k, 38 + 4 * k))

\* C25: the payload of the instruction createEscrowAccount / deleteEscrowAccount
\* builds carries, after the digest and the record type, prev_index, index and
\* next_index in that order; the accounts at positions 3, 4, 5 (create) and
\* 4, 5, 6 (delete) are the escrow addresses derived from those indices, each
\* writable and not a signer, so payload and account list agree.
C25_PayloadMatchesAccounts ==
  \A c \in Callers :
    (pc[c] = "built" /\ op[c] \in {"create", "delete"}) =>
      LET ix == result[c]
          at == (IF op[c] = "create" THEN 3 ELSE 4)
          given == <<arg[c].prev_index, arg[c].index, arg[c].next_index>>
      IN /\ ix.data[1] = IF op[c] = "create" THEN 6 ELSE 8
         /\ SubSeq(ix.data, 2, 33) = HashedName
         /\ \A k \in 0..2 :
              /\ PayloadIndex(ix.data, k) = IndexNum(given[k + 1])
              /\ ix.keys[at + k + 1].pubkey = getEscrowAccountKey(given[k + 1])
              /\ IndexNum(ix.keys[at + k + 1].pubkey.index) = PayloadIndex(ix.data, k)
              /\ ix.keys[at + k + 1].isWritable
              /\ ~ ix.keys[at + k + 1].isSigner

C25_witness ==
  \E c \in Callers :
    /\ pc[c] = "built" /\ op[c] = "delete"
    /\ arg[c].prev_index = 1 /\ arg[c].index = 2 /\ arg[c].next_index = U32_MAX
    /\ SubSeq(result[c].data, 35, 46) = <<1, 0, 0, 0, 2, 0, 0, 0, 255, 255, 255, 255>>
    /\ result[c].keys[7].pubkey = getEscrowAccountKey(U32_MAX)

\* C24: parseName returns an undefined parseError exactly when the record
\* type it returns is not Invalid.
C24_ParseErrorIffInvalid ==
  \A c \in Callers :
    (pc[c] = "done" /\ op[c] = "parseName") =>
      (result[c].parseError = Undefined <=> result[c].recordType # RecordType_Invalid)

C24_witness ==
  \E c \in Callers :
    /\ pc[c] = "done" /\ op[c] = "parseName"
    /\ ~ arg[c].isEmail /\ arg[c].endsWithSol /\ arg[c].length = 4
    /\ arg[c].phone.kind = "invalid"
    /\ result[c].recordType = RecordType_Invalid
    /\ result[c].parseError = ParseError("INVALID")

RECURSIVE getEscrowAccounts_run(_, _, _, _)
\* The locals of getEscrowAccounts when its loop ends on a ledger that stands
\* still, from the locals idx and accs, in at most n turns.
getEscrowAccounts_run(l, idx, accs, n) ==
  LET t == getEscrowAccounts_turn(l, idx, accs, NoFilter) IN
  IF t.pc # "list_loop" \/ n = 0 THEN t
  ELSE getEscrowAccounts_run(l, t.index, t.accounts, n - 1)

\* What getEscrowAccounts without a filter comes to on the ledger l.
Listed(l) == getEscrowAccounts_run(l, getEscrowAccounts_start(l), <<>>, MaxIndex + 2)

\* The indices of the nodes of the chain.
ChainIndices(l) == {l[k].index : k \in Reach(l)}

\* The indices from 1 below U32_MAX that no node of the chain has.
Unused(l) == (1..(U32_MAX - 1)) \ ChainIndices(l)

Min(S) == CHOOSE x \in S : \A y \in S : x <= y

\* The next_index stored in the account that counts as index i (0: the root,
\* an absent root standing for an empty chain).
NextOf(l, i) ==
  IF i = 0
    THEN IF getEscrowRootAccount(l) = Null THEN U32_MAX ELSE l[0].next_index
    ELSE LET k == CHOOSE k \in Reach(l) : l[k].index = i IN l[k].next_index

\* Every stored node's index field is the index its address was derived from.
Aligned(l) == \A k \in 1..MaxIndex : l[k].kind = "node" => l[k].index = k

\* C28 as claimed: on a chain that satisfies I1-I3 and leaves an index below U32_MAX
\* unused, getNextAvailableEscrowAccount returns the smallest index >= 1 that
\* is not in the chain, with prev_index the largest index of the chain below
\* it (0 for the root) and next_index the smallest above it (U32_MAX if there
\* is none); prev links to next in the chain, and the returned index is not
\* among the nodes getEscrowAccounts lists on the same ledger.
C28_SmallestUnusedIndex ==
  \A c \in Callers :
    (op[c] = "next" /\ pc[c] \in {"done", "error"} /\ WellFormed(ledger)
       /\ Unused(ledger) # {}) =>
      /\ pc[c] = "done"
      /\ LET r == result[c]
             idxs == ChainIndices(ledger)
             list == Listed(ledger)
         IN /\ r.index = Min(Unused(ledger))
            /\ r.prev_index \in {0} \cup idxs
            /\ r.prev_index < r.index
            /\ \A i \in idxs : i < r.index => i <= r.prev_index
            /\ r.next_index = Min({U32_MAX} \cup {i \in idxs : i > r.index})
            /\ NextOf(ledger, r.prev_index) = r.next_index
            /\ list.pc = "done"
            /\ \A i \in 1..Len(list.accounts) : list.accounts[i].index # r.index

\* C28 as amended: the same on chains whose nodes, besides I1-I3, carry in
\* their index field the index their address was derived from.
C28_SmallestUnusedOnAligned ==
  \A c \in Callers :
    (op[c] = "next" /\ pc[c] \in {"done", "error"} /\ WellFormed(ledger)
       /\ Aligned(ledger) /\ Unused(ledger) # {}) =>
      /\ pc[c] = "done"
      /\ LET r == result[c]
             idxs == ChainIndices(ledger)
             list == Listed(ledger)
         IN /\ r.index = Min(Unused(ledger))
            /\ r.prev_index \in {0} \cup idxs
            /\ r.prev_index < r.index
            /\ \A i \in idxs : i < r.index => i <= r.prev_index
            /\ r.next_index = Min({U32_MAX} \cup {i \in idxs : i > r.index})
            /\ NextOf(ledger, r.prev_index) = r.next_index
            /\ list.pc = "done"
            /\ \A i \in 1..Len(list.accounts) : list.accounts[i].index # r.index

\* The slot between two nodes of a chain in order, found after a node was read.
C28_witness ==
  \E c \in Callers :
    /\ op[c] = "next" /\ pc[c] = "done"
    /\ WellFormed(ledger) /\ Aligned(ledger)
    /\ Reach(ledger) = {1, 3}
    /\ Triple(result[c]) = <<1, 2, 3>>
    /\ Len(Listed(ledger).accounts) = 2

\* C27: on every ledger whose nodes carry in their index field the index of
\* their address and satisfy I1, a slot getNextAvailableEscrowAccount returns
\* has prev_index < index < next_index and the address derived for its index,
\* and createEscrowAccount accepts it.
C27_SlotPassesValidation ==
  \A c \in Callers :
    (op[c] = "next" /\ pc[c] = "done" /\ Aligned(ledger) /\ I1(ledger)) =>
      LET r == result[c] IN
      /\ r.prev_index < r.index
      /\ r.index < r.next_index
      /\ r.address = getEscrowAccountKey(r.index)
      /\ ~ InvalidTriple(r)
      /\ createEscrowAccount([length |-> MAX_NAME_LENGTH], SenderOf(c), r).pc = "built"

\* A slot found behind a read node on a ledger with a link that was tampered with.
C27_witness ==
  \E c \in Callers :
    /\ op[c] = "next" /\ pc[c] = "done"
    /\ Aligned(ledger) /\ I1(ledger) /\ corruptions = 1 /\ ~ WellFormed(ledger)
    /\ Len(fetched[c]) >= 1
    /\ createEscrowAccount([length |-> MAX_NAME_LENGTH], SenderOf(c), result[c]).pc = "built"

\* The indices with a node at their address.
Live(l) == {k \in 1..MaxIndex : l[k].kind = "node"}

\* C29: from the empty ledger, after any sequence of inserts that apply the
\* triple getNextAvailableEscrowAccount returned and deletes that relink the
\* neighbours, the chain satisfies I1-I3, getEscrowAccounts returns exactly
\* the live nodes in ascending order, and the slot handed out is never above
\* an unused index: a freed index is handed out again before any larger one.
C29_ChurnKeepsChain ==
  /\ WellFormed(ledger) /\ Aligned(ledger)
  /\ Reach(ledger) = Live(ledger)
  /\ \A c \in Callers :
       /\ (op[c] = "list" /\ filter[c] = NoFilter /\ pc[c] \in {"done", "error"}) =>
            /\ pc[c] = "done"
            /\ LET accs == result[c].accounts IN
                 /\ {accs[i].index : i \in 1..Len(accs)} = Live(ledger)
                 /\ \A i \in 1..Len(accs) : accs[i] = getEscrowAccount(ledger, accs[i].index)
                 /\ \A i \in 1..(Len(accs) - 1) : accs[i].index < accs[i + 1].index
       /\ (op[c] = "next" /\ pc[c] = "done") =>
            /\ result[c].index \notin Live(ledger)
            /\ \A k \in 1..(result[c].index - 1) : k \in Live(ledger)
       /\ \A i \in 1..Len(applied) :
            \A k \in 1..(applied[i][2] - 1) :
              \E j \in 1..(i - 1) : applied[j][2] = k

\* Index 1 was freed while 2 was live and was handed out and inserted again.
C29_witness ==
  /\ Len(applied) >= 3
  /\ applied[1][2] = 1 /\ applied[2][2] = 2 /\ applied[3] = <<0, 1, 2>>
  /\ Live(ledger) = {1, 2}

\* C30: on every ledger, consistent or not, a slot getNextAvailableEscrowAccount
\* returns has 1 <= index < next_index <= U32_MAX, so U32_MAX is never handed
\* out as an index; on a chain that occupies every index from 1 to
\* U32_MAX - 1 the walk ends in an error, not in a slot.
C30_SlotBelowSentinel ==
  \A c \in Callers :
    /\ (op[c] = "next" /\ pc[c] = "done") =>
         /\ 1 <= result[c].index
         /\ result[c].index < result[c].next_index
         /\ result[c].next_index <= U32_MAX
         /\ result[c].index # U32_MAX
    /\ (op[c] = "next" /\ pc[c] \in {"done", "error"} /\ WellFormed(ledger)
          /\ Aligned(ledger) /\ Reach(ledger) = 1..(U32_MAX - 1)) =>
         (pc[c] = "error" /\ err[c] = NullPointerError)

\* The walk over a full chain read every node and ended in the error.
C30_witness ==
  \E c \in Callers :
    /\ op[c] = "next" /\ pc[c] = "error" /\ err[c] = NullPointerError
    /\ WellFormed(ledger) /\ Aligned(ledger) /\ Reach(ledger) = 1..(U32_MAX - 1)
    /\ Len(fetched[c]) = U32_MAX

====
